---- MODULE Spec2Model ----
(***************************************************************************)
(* Identity resolution and authenticated-session lifecycle of kitty-agent: *)
(* the stateful OAuth client (oauth-stateful-base.ts with its Svelte and   *)
(* Preact store bindings), the OAuth client below it (getSession /         *)
(* redirect) and the identity cache (pds-helpers.ts, handles/resolve).     *)
(*                                                                         *)
(* One browser page is one process.  JavaScript runs to completion between *)
(* awaits, so every action below is the synchronous run of one handler or  *)
(* of one continuation; the pc of a call names the await it is suspended   *)
(* on.  The only synchronous runs that are split in two are the ones whose *)
(* intermediate store writes subscribers can observe (Agent then Client,   *)
(* session deletion then Account); Busy keeps every other action out while *)
(* such a run is in progress.                                              *)
(***************************************************************************)
EXTENDS Integers, Sequences, FiniteSets, TLC

VARIABLES
    constructed,            \* the stateful client of this page has been constructed
    localStorage,           \* durable key-value storage (survives reloads)
    sessions,               \* OAuth session storage: the DIDs with a stored session
    account,                \* _account slot
    agent,                  \* _agent slot
    client,                 \* _client slot
    didCache,               \* resolve.ts: handle -> DID
    didPdsCache,            \* pds-helpers.ts: key -> {did, pds, didDocument}
    calls,                  \* authenticateIfNecessary calls (0 is the auto-login's)
    initialSessionPromise,  \* memoized promise of waitForInitialSession
    waiter,                 \* callers of waitForInitialSession
    bodyStarts,             \* how often the auto-login body was started (this page)
    revoke,                 \* position of revokeSessions
    ret,                    \* the operation that returned in the last step
    reloads,                \* page reloads so far
    lookups,                \* getDidAndPds / resolveHandleAnonymously calls made directly
    idret,                  \* the lookup that returned in the last step
    firstTuple,             \* key -> what the first successful getDidAndPds returned
    sample,                 \* a helper function applied to an input, with its result
    lastTimestamp,          \* shortid: the module variable of each generator
    issued,                 \* shortid: the last two now() calls of each generator
    nowCalls,               \* shortid: now() calls so far
    pager                   \* agent.ts: the paginationHelper call and its locals

vars == <<constructed, localStorage, sessions, account, agent, client, didCache,
          didPdsCache, calls, initialSessionPromise, waiter, bodyStarts, revoke,
          ret, reloads, lookups, idret, firstTuple, sample, lastTimestamp, issued,
          nowCalls, pager>>

\* the state of the identity layer's own calls and of the helper functions
idvars == <<lookups, idret, firstTuple, sample, lastTimestamp, issued, nowCalls,
            pager>>

\* the state of the ID generators and of the pagination helper
genvars == <<lastTimestamp, issued, nowCalls, pager>>

\* the state of the stateful client
appvars == <<constructed, localStorage, sessions, account, agent, client, calls,
             initialSessionPromise, waiter, bodyStarts, revoke, ret, reloads>>

(***************************************************************************)
(* Bounds of the model.                                                    *)
(***************************************************************************)
MaxCalls == 1       \* authenticateIfNecessary calls of the application in flight
MaxWaiters == 2     \* callers of waitForInitialSession
MaxReloads == 1     \* page reloads (each constructs a fresh client)
MaxLookups == 1     \* direct getDidAndPds / resolveHandleAnonymously calls in flight

Handles == {"a.test", "b.test"}
Dids == {"did:plc:1", "did:plc:2"}
\* what the two strategies may answer for a handle: a.test is bound to either
\* DID (and may be re-bound at any time), b.test always to did:plc:2
NetworkDids(handle) == IF handle = "a.test" THEN Dids ELSE {"did:plc:2"}
Endpoints == {"https://pds.test"}
\* what the application passes as `handle`
Inputs == Handles

InitCall == 0
CallIds == 0..MaxCalls
UserCalls == 1..MaxCalls
Waiters == 1..MaxWaiters

(***************************************************************************)
(* Values.  A slot holds an object or undefined; objects are records.      *)
(***************************************************************************)
undefined == [type |-> "undefined"]

\* JavaScript truthiness of a slot value: the slots hold objects or undefined
Truthy(v) == v # undefined

\* variant: the handle field is filled with the resolved DID
Account_HandleFromDid(did, pds, handle) == [did |-> did, pds |-> pds, handle |-> did]

Account(did, pds, handle) == [did |-> did, pds |-> pds, handle |-> handle]

\* the Account an earlier page may have left in storage
PersistedAccounts == { Account("did:plc:1", "https://pds.test", "a.test") }

(***************************************************************************)
(* JSON text is a sequence of tokens; the literal null is the one-token    *)
(* text <<"null">>.                                                        *)
(***************************************************************************)
JSONstringify(value) ==
    <<"{", "did", value.did, "pds", value.pds, "handle", value.handle, "}">>

\* the value that follows key `k` in an object text
JSONmember(text, k) ==
    text[(CHOOSE i \in 1..Len(text) : i % 2 = 0 /\ text[i] = k) + 1]

JSONparse(text) ==
    [did    |-> JSONmember(text, "did"),
     pds    |-> JSONmember(text, "pds"),
     handle |-> JSONmember(text, "handle")]

deserializer(raw) == IF raw = <<"null">> THEN undefined ELSE JSONparse(raw)

serializer(value) == IF value = undefined THEN <<"null">> ELSE JSONstringify(value)

\* variant: the subscriber skips values that are not objects
StorageWrite_SkipUndefined(storage, key, value) ==
    IF value = undefined THEN storage ELSE (key :> serializer(value)) @@ storage

\* useLocalStorage: the subscriber writes the slot's value under the key
StorageWrite(storage, key, value) == (key :> serializer(value)) @@ storage

\* variant: the slot starts from the initial value whatever is stored
StorageSeed_Unseeded(storage, key, initialValue) == initialValue

\* useLocalStorage: the value the slot is seeded with
StorageSeed(storage, key, initialValue) ==
    IF key \in DOMAIN storage THEN deserializer(storage[key]) ELSE initialValue

(***************************************************************************)
(* The derived stores.                                                     *)
(***************************************************************************)
LoginStateImpl(acc, ag, cl) ==
    [handle |-> acc.handle, did |-> acc.did, pds |-> acc.pds,
     agent |-> ag, client |-> cl]

\* variant: the Client slot is not looked at
UserOf_IgnoringClient(acc, ag, cl) ==
    IF Truthy(acc) /\ Truthy(ag)
    THEN LoginStateImpl(acc, ag, cl)
    ELSE undefined

UserOf(acc, ag, cl) ==
    IF Truthy(acc) /\ Truthy(ag) /\ Truthy(cl)
    THEN LoginStateImpl(acc, ag, cl)
    ELSE undefined

user == UserOf(account, agent, client)

(***************************************************************************)
(* Identity: DID syntax, DID documents, the hosting endpoint.              *)
(***************************************************************************)
\* the strings that match /^did:([a-z]+):([a-zA-Z0-9._:%-]*[a-zA-Z0-9._-])$/ among
\* the strings of the model ("did:", "did:plc:" and "bogus" do not)
DidSyntax ==
    Dids \cup {"did:web:pds.test", "did:web:localhost", "did:key:z6Mk"}

isDid(s) == s \in DidSyntax

\* did.slice(4, did.indexOf(':', 4))
didMethod(did) ==
    IF did \in {"did:plc:1", "did:plc:2"} THEN "plc"
    ELSE IF did \in {"did:web:pds.test", "did:web:localhost"} THEN "web"
    ELSE "key"

\* did.slice(colon_index + 1)
didIdent(did) ==
    IF did = "did:plc:1" THEN "1"
    ELSE IF did = "did:plc:2" THEN "2"
    ELSE IF did = "did:web:pds.test" THEN "pds.test"
    ELSE IF did = "did:web:localhost" THEN "localhost"
    ELSE "z6Mk"

\* DID_WEB_RE.test(ident): dot-separated labels that end in a top-level domain
DID_WEB_RE(ident) == ident = "pds.test"

\* a JavaScript value that is a string, and one that is an object
Str(s) == [typeof |-> "string", value |-> s]
Obj == [typeof |-> "object"]

PdsService(endpoint) ==
    [id |-> "#atproto_pds", type |-> "AtprotoPersonalDataServer",
     serviceEndpoint |-> Str(endpoint)]

\* the documents the directory may serve for a DID
Documents(did) ==
    { [id |-> did, service |-> <<PdsService(e)>>] : e \in Endpoints }
        \cup { [id |-> did, service |-> <<>>] }

\* new URL(urlStr) for the endpoint strings of the model: the parsed URL, or
\* a TypeError for a string that is no absolute URL
UrlStrings ==
    Endpoints \cup {"http://pds.test:2583/", "ftp://pds.test", "mailto:pds@pds.test",
                    "pds.test", "https://"}

NewURL(urlStr) ==
    IF urlStr \in Endpoints
    THEN [protocol |-> "https:", hostname |-> "pds.test"]
    ELSE IF urlStr = "http://pds.test:2583/"
    THEN [protocol |-> "http:", hostname |-> "pds.test"]
    ELSE IF urlStr = "ftp://pds.test"
    THEN [protocol |-> "ftp:", hostname |-> "pds.test"]
    ELSE IF urlStr = "mailto:pds@pds.test"
    THEN [protocol |-> "mailto:", hostname |-> ""]
    ELSE [protocol |-> "TypeError", hostname |-> ""]

\* variant: the scheme is not looked at
validateUrl_AnyScheme(urlStr) ==
    LET url == NewURL(urlStr)
    IN  IF url.protocol = "TypeError" THEN "undefined"
        ELSE IF url.hostname # "" THEN urlStr
        ELSE "undefined"

validateUrl(urlStr) ==
    LET url == NewURL(urlStr)
    IN  IF url.protocol = "TypeError" THEN "undefined"
        ELSE IF url.hostname # "" /\ url.protocol \in {"http:", "https:"} THEN urlStr
        ELSE "undefined"

getServiceEndpoint(doc, serviceId, serviceType) ==
    LET didServiceId == doc.id \o serviceId
        hits == { i \in 1..Len(doc.service) :
                    \/ doc.service[i].id = serviceId
                    \/ doc.service[i].id = didServiceId }
    IN  IF hits = {} THEN "undefined"
        ELSE LET found == doc.service[CHOOSE i \in hits : \A j \in hits : i <= j]
             IN  IF found.type # serviceType \/ found.serviceEndpoint.typeof # "string"
                 THEN "undefined"
                 ELSE validateUrl(found.serviceEndpoint.value)

getPdsEndpoint(doc) ==
    getServiceEndpoint(doc, "#atproto_pds", "AtprotoPersonalDataServer")

(***************************************************************************)
(* The live objects of a login.                                            *)
(***************************************************************************)
Session(did) == [sub |-> did]
OAuthUserAgent(session) == [session |-> session]
KittyAgent(handler) == [handler |-> handler]
createClient(did, pds, handle, ag) ==
    [did |-> did, pds |-> pds, handle |-> handle, agent |-> ag]

(***************************************************************************)
(* A call of authenticateIfNecessary.  pc is the await the call is         *)
(* suspended on:                                                           *)
(*   resolving        resolveHandleAnonymously: the strategies' requests   *)
(*   fetchingDoc      getDidDocument: the directory request                *)
(*   gotDidPds        getDidAndPds has resolved, continuation pending      *)
(*   gettingSession   getSession(did, {allowStale: false})                 *)
(*   setClient        Agent written, Client not yet (same synchronous run) *)
(*   authorizing      resolveFromIdentity / createAuthorizationUrl         *)
(*   delay            the 200 ms before the redirect                       *)
(*   watchdog         the 100 s after the redirect                         *)
(* `did`/`pds` are the call's locals, `sdid` the DID the session is asked  *)
(* for, `phase` says which resolveHandleAnonymously call is in flight,     *)
(* `effects` records what the call has done so far.  A call that settles   *)
(* (pc "done": it returned true or false, or threw) frees its slot, and    *)
(* `ret` shows the settled call for the one state that follows.            *)
(***************************************************************************)
IdleCall ==
    [pc |-> "idle", handle |-> "", refreshOnly |-> FALSE, did |-> "", pds |-> "",
     sdid |-> "", phase |-> "", result |-> "none", error |-> "", effects |-> {}]

NewCall(handle, refreshOnly) ==
    [IdleCall EXCEPT !.handle = handle, !.refreshOnly = refreshOnly]

Settled(call, result, error) ==
    [call EXCEPT !.pc = "done", !.result = result, !.error = error]

NoReturn == [op |-> "none"]

\* the promise of the auto-login body once call `c` has settled with `result`
PromiseAfter(c, result) ==
    IF c # InitCall THEN initialSessionPromise
    ELSE IF result = "throw" THEN "rejected" ELSE "fulfilled"

\* call c goes on as `next`, or has settled as `next`
StepCall(c, next) ==
    IF next.pc = "done"
    THEN /\ calls' = [calls EXCEPT ![c] = IdleCall]
         /\ ret' = [op |-> "authenticateIfNecessary", call |-> c,
                    handle |-> next.handle, refreshOnly |-> next.refreshOnly,
                    did |-> next.did, pds |-> next.pds, sdid |-> next.sdid,
                    result |-> next.result, error |-> next.error,
                    effects |-> next.effects]
    ELSE /\ calls' = [calls EXCEPT ![c] = next]
         /\ ret' = NoReturn

\* `await this.initialSessionPromise` of every caller completes with the promise
Resume(promise) ==
    [w \in Waiters |->
        IF waiter[w] # "awaiting" \/ promise = "pending" THEN waiter[w]
        ELSE IF promise = "fulfilled" THEN "returned" ELSE "threw"]

Step(c, next) ==
    /\ StepCall(c, next)
    /\ initialSessionPromise' =
          IF next.pc = "done" THEN PromiseAfter(c, next.result)
          ELSE initialSessionPromise
    /\ waiter' = IF c = InitCall /\ next.pc = "done"
                 THEN Resume(PromiseAfter(c, next.result))
                 ELSE waiter

\* a synchronous run is between two observable store writes
Busy == revoke = "deleted" \/ \E c \in CallIds : calls[c].pc = "setClient"

(***************************************************************************)
(* resolveHandleAnonymously up to its first await (part_003:7-16): a DID   *)
(* is returned as it is, a cached handle from the cache, anything else     *)
(* starts the two strategies.                                              *)
(***************************************************************************)
\* variant: the handle cache is consulted before the DID test
ResolveStart_CacheFirst(handle) ==
    IF handle \in DOMAIN didCache
    THEN [did |-> didCache[handle], effects |-> {"didCache.has", "didCache.get"}]
    ELSE IF isDid(handle)
    THEN [did |-> handle, effects |-> {"didCache.has"}]
    ELSE [did |-> "pending", effects |-> {"didCache.has", "http", "doh"}]

ResolveStart(handle) ==
    IF isDid(handle)
    THEN [did |-> handle, effects |-> {}]
    ELSE IF handle \in DOMAIN didCache
    THEN [did |-> didCache[handle], effects |-> {"didCache.has", "didCache.get"}]
    ELSE [did |-> "pending", effects |-> {"didCache.has", "http", "doh"}]

ResolveNow(handle) == ResolveStart(handle).did

(***************************************************************************)
(* oauthAuthenticateOrRefresh up to its first await (part_001:53-58).      *)
(***************************************************************************)
OAuthBegin(call) ==
    LET d == ResolveNow(call.handle)
    IN  IF d = "pending"
        THEN [call EXCEPT !.pc = "resolving", !.phase = "oauth"]
        ELSE [call EXCEPT !.pc = "gettingSession", !.sdid = d,
                          !.effects = @ \cup {"getSession"}]

\* variant: the rejection of getSession is not caught
NoSession_Propagated(call) == Settled(call, "throw", "session")

\* variant: refreshOnly is not looked at
NoSession_Interactive(call) ==
    [call EXCEPT !.pc = "authorizing", !.did = "", !.pds = "", !.sdid = "",
                 !.phase = "", !.effects = @ \cup {"authorize"}]

\* no session was obtained (part_001:65-70); the locals of
\* authenticateIfNecessary are not used again once oauthAuthenticate runs
NoSession(call) ==
    IF call.refreshOnly
    THEN Settled(call, "false", "")
    ELSE [call EXCEPT !.pc = "authorizing", !.did = "", !.pds = "", !.sdid = "",
                      !.phase = "", !.effects = @ \cup {"authorize"}]

(***************************************************************************)
(* authenticateIfNecessary up to its first await                           *)
(* (oauth-stateful-base.ts:59-65, pds-helpers.ts:9-13).                    *)
(***************************************************************************)
\* variant: the comparison of the handles is inverted
ShortCircuit_OtherHandle(handle) ==
    Truthy(user) /\ Truthy(account) /\ account.handle # handle

ShortCircuit(handle) ==
    Truthy(user) /\ Truthy(account) /\ account.handle = handle

AuthBegin(handle, refreshOnly) ==
    LET call == NewCall(handle, refreshOnly)
    IN  IF ShortCircuit(handle) THEN Settled(call, "true", "")
        ELSE IF handle \in DOMAIN didPdsCache
        THEN [call EXCEPT !.pc = "gotDidPds",
                          !.did = didPdsCache[handle].did,
                          !.pds = didPdsCache[handle].pds,
                          !.effects = {"getDidAndPds"}]
        ELSE LET d == ResolveNow(handle)
             IN  IF d = "pending"
                 THEN [call EXCEPT !.pc = "resolving", !.phase = "identity",
                                   !.effects = {"getDidAndPds"}]
                 ELSE [call EXCEPT !.pc = "fetchingDoc", !.did = d,
                                   !.effects = {"getDidAndPds"}]

(***************************************************************************)
(* The two resolution strategies (handles/http.ts, handles/doh.ts).  Text  *)
(* that the code takes apart is a sequence of tokens: a line of the HTTP   *)
(* body, the data of a TXT answer.  The outcome of a promise is a record.  *)
(***************************************************************************)
Pending == [status |-> "pending"]
Fulfilled(value) == [status |-> "fulfilled", value |-> value]
Rejected(reason) == [status |-> "rejected", reason |-> reason]

\* the string a token sequence spells, for one-token sequences; a longer
\* sequence holds white space or a quote inside and is no DID, as is ""
StringOf(tokens) == IF Len(tokens) = 1 THEN tokens[1] ELSE ""

RECURSIVE trimStart(_)
trimStart(line) ==
    IF line # <<>> /\ Head(line) = " " THEN trimStart(Tail(line)) ELSE line

RECURSIVE trimEnd(_)
trimEnd(line) ==
    IF line # <<>> /\ line[Len(line)] = " "
    THEN trimEnd(SubSeq(line, 1, Len(line) - 1))
    ELSE line

trim(line) == trimEnd(trimStart(line))

\* the bodies of /.well-known/atproto-did: the lines of text.split('\n')
HttpTexts ==
    { << <<"did:plc:1">> >>,
      << <<" ", "did:plc:2", " ">>, <<"bogus">> >>,
      << <<"bogus">>, <<"did:plc:1">> >>,
      << <<>> >> }

\* a fetch that rejects (network, redirect) ends the strategy like a response
\* that is not ok
HttpResponses ==
    { [ok |-> FALSE, text |-> << <<>> >>] }
        \cup { [ok |-> TRUE, text |-> t] : t \in HttpTexts }

resolveHandleViaHttp(response) ==
    IF ~response.ok THEN Rejected("domain is unreachable")
    ELSE LET did == StringOf(trim(response.text[1]))
         IN  IF isDid(did) THEN Fulfilled(did)
             ELSE Rejected("failed to resolve")

PREFIX == "did="

\* the answers of the DoH server: TXT answers have type 16
AnswerValues ==
    { [type |-> 16, data |-> <<"\"", "did=", "did:plc:1", "\"">>],
      [type |-> 16, data |-> <<"did=", "did:plc:2">>],
      [type |-> 16, data |-> <<"\"", "did=", "bogus", "\"">>],
      [type |-> 16, data |-> <<"\"", "v=spf1", "\"">>],
      [type |-> 5,  data |-> <<"did=", "did:plc:2">>] }

MaxAnswers == 3

AnswerLists == UNION { [1..n -> AnswerValues] : n \in 0..MaxAnswers }

DohResponses ==
    { [ok |-> FALSE, type |-> "text/plain", result |-> [Status |-> 2]],
      [ok |-> TRUE, type |-> "text/html", result |-> [Status |-> 0]],
      [ok |-> TRUE, type |-> "application/dns-json", result |-> [Invalid |-> TRUE]],
      [ok |-> TRUE, type |-> "application/dns-json", result |-> [Status |-> 3]] }
        \cup { [ok |-> TRUE, type |-> "application/dns-json",
                result |-> [Status |-> 0, Answer |-> answers]] :
                  answers \in AnswerLists }

\* the responses the DoH server gives to the calls of the identity layer:
\* those with at most two answers
DohReplies ==
    { response \in DohResponses :
        "Answer" \in DOMAIN response.result => Len(response.result.Answer) <= 2 }

isResult(result) == "Status" \in DOMAIN result

isAnswerTxt(answer) == answer.type = 16

\* answer.data.replace(/^"|"$/g, ''); no data of the model has an escaped quote
extractTxtData(answer) ==
    LET data == answer.data
        open == IF data # <<>> /\ Head(data) = "\"" THEN Tail(data) ELSE data
    IN  IF open # <<>> /\ open[Len(open)] = "\""
        THEN SubSeq(open, 1, Len(open) - 1)
        ELSE open

startsWith(txt, prefix) == txt # <<>> /\ Head(txt) = prefix

\* result.Answer?.filter(isAnswerTxt).map(extractTxtData) ?? []
TxtAnswers(result) ==
    IF "Answer" \notin DOMAIN result THEN <<>>
    ELSE LET txt == SelectSeq(result.Answer, isAnswerTxt)
         IN  [i \in 1..Len(txt) |-> extractTxtData(txt[i])]

\* variant: only the first answer is looked at
resolveAnswers_FirstOnly(answers) ==
    IF answers # <<>> /\ startsWith(answers[1], PREFIX)
          /\ isDid(StringOf(Tail(answers[1])))
    THEN Fulfilled(StringOf(Tail(answers[1])))
    ELSE Rejected("failed to resolve")

\* the loop over the answers (doh.ts:34-55).  The inner loop over the later
\* answers only breaks out of itself, whether or not it finds a second entry
\* that starts with the prefix, so the loop body goes on with answers[i].
resolveAnswers(answers) ==
    LET prefixed == { i \in 1..Len(answers) : startsWith(answers[i], PREFIX) }
    IN  IF prefixed = {} THEN Rejected("failed to resolve")
        ELSE LET i == CHOOSE k \in prefixed : \A j \in prefixed : k <= j
                 did == StringOf(Tail(answers[i]))
             IN  IF isDid(did) THEN Fulfilled(did)
                 ELSE Rejected("failed to resolve")

resolveHandleViaDoH(response) ==
    IF ~response.ok THEN Rejected("failed to resolve")
    ELSE IF response.type # "application/dns-json"
    THEN Rejected("unexpected response from DoH server")
    ELSE IF ~isResult(response.result) THEN Rejected("unexpected DoH response")
    ELSE resolveAnswers(TxtAnswers(response.result))

\* variant: only the first strategy's result is looked at
FirstFulfilled_HeadOnly(results) ==
    IF results[1].status = "fulfilled" THEN results[1] ELSE Rejected(results)

\* results.find(p => p.status === 'fulfilled') over [http, doh]
FirstFulfilled(results) ==
    LET hits == { i \in 1..Len(results) : results[i].status = "fulfilled" }
    IN  IF hits = {} THEN Rejected(results)
        ELSE results[CHOOSE i \in hits : \A j \in hits : i <= j]

(***************************************************************************)
(* getDidDocument (part_004:92-134).                                       *)
(***************************************************************************)
\* variant: the method-specific id of a web DID is not tested
DocumentRequest_AnyDomain(did) ==
    IF didMethod(did) = "plc" THEN "directory"
    ELSE IF didMethod(did) = "web" THEN "well-known"
    ELSE "unsupported did method"

\* what getDidDocument does before its first await: the request it sends,
\* or the error it throws without one
DocumentRequest(did) ==
    IF didMethod(did) = "plc" THEN "directory"
    ELSE IF didMethod(did) = "web"
    THEN IF DID_WEB_RE(didIdent(did)) THEN "well-known" ELSE "invalid identifier"
    ELSE "unsupported did method"

\* response.ok
ResponseOk(response) == response.status >= 200 /\ response.status <= 299

\* the responses of the directory and of a did:web host; the body is a
\* document or is not JSON
DocumentResponses(did) ==
    { [status |-> st, json |-> TRUE, body |-> doc] :
        st \in {200, 203, 304, 404, 410, 500, 503}, doc \in Documents(did) }
        \cup { [status |-> 200, json |-> FALSE, body |-> [id |-> did, service |-> <<>>]] }

\* variant: every response that is not ok counts as unreachable
DocumentResult_NoNotFound(request, response) ==
    IF ~ResponseOk(response)
    THEN Rejected(IF request = "directory" THEN "directory is unreachable"
                  ELSE "did document is unreachable")
    ELSE IF ~response.json THEN Rejected("SyntaxError")
    ELSE Fulfilled(response.body)

\* getDidDocument after the response arrived
DocumentResult(request, response) ==
    IF request = "directory" /\ response.status = 404
    THEN Rejected("did not found in directory")
    ELSE IF ~ResponseOk(response)
    THEN Rejected(IF request = "directory" THEN "directory is unreachable"
                  ELSE "did document is unreachable")
    ELSE IF ~response.json THEN Rejected("SyntaxError")
    ELSE Fulfilled(response.body)

(***************************************************************************)
(* A direct call of resolveHandleAnonymously or getDidAndPds.  pc is the   *)
(* await it is suspended on: "strategies" (Promise.allSettled of the two   *)
(* strategies) or "fetching" (the document request).  `http` and `doh` are *)
(* the outcomes of the strategies, `first` the strategy that settled       *)
(* first, `effects` the cache accesses and requests of the call.           *)
(***************************************************************************)
LookupIds == 1..MaxLookups

\* the keys the application looks up
LookupKeys ==
    {"a.test", "did:plc:1", "did:web:pds.test", "did:web:localhost", "did:key:z6Mk"}

IdleLookup ==
    [pc |-> "idle", op |-> "", key |-> "", did |-> "", request |-> "",
     http |-> Pending, doh |-> Pending, first |-> "", effects |-> {},
     outcome |-> Pending]

\* the call has returned `outcome.value` or has thrown `outcome.reason`
LookupDone(lk, outcome) == [lk EXCEPT !.pc = "done", !.outcome = outcome]

NoLookupReturn == [op |-> "none"]

NoSample == [fn |-> "none"]

(***************************************************************************)
(* The ID generators (shortid.ts, and ShortId2 with its 67-character       *)
(* alphabet).  A string is the sequence of its characters.  Time is in     *)
(* milliseconds from an origin shortly before the epochs; all the numbers  *)
(* of the model are integers far below 2^53, as are the program's for      *)
(* clock readings of this era and epochs that are valid time values.       *)
(***************************************************************************)
Generators == {"ShortId", "ShortId2"}

S64_CHAR ==
    <<"A", "B", "C", "D", "E", "F", "G", "H", "I", "J", "K", "L", "M",
       "N", "O", "P", "Q", "R", "S", "T", "U", "V", "W", "X", "Y", "Z",
       "a", "b", "c", "d", "e", "f", "g", "h", "i", "j", "k", "l", "m",
       "n", "o", "p", "q", "r", "s", "t", "u", "v", "w", "x", "y", "z",
       "0", "1", "2", "3", "4", "5", "6", "7", "8", "9", "-", "_">>

S67_CHAR ==
    <<"A", "B", "C", "D", "E", "F", "G", "H", "I", "J", "K", "L", "M",
       "N", "O", "P", "Q", "R", "S", "T", "U", "V", "W", "X", "Y", "Z",
       "a", "b", "c", "d", "e", "f", "g", "h", "i", "j", "k", "l", "m",
       "n", "o", "p", "q", "r", "s", "t", "u", "v", "w", "x", "y", "z",
       "0", "1", "2", "3", "4", "5", "6", "7", "8", "9", ".", "-", "_",
       ":", "~">>

\* the EPOCH constant of each module, from the model's origin
EPOCH == [ShortId |-> 100, ShortId2 |-> 110]

\* what Date.now() may read at a call: any of these, in any order
Readings == {90, 104, 4700}

\* the epochs ShortId2.now is called with: the default, one before every
\* reading and one after some
Epochs == {EPOCH["ShortId2"], 0, 102}

\* Math.floor(Math.random() * 1023) is one of 0..1022
ClockIds == {0, 5, 1022}

RECURSIVE s64encode(_)
s64encode(i) ==
    IF i = 0 THEN <<>>
    ELSE s64encode(i \div Len(S64_CHAR)) \o <<S64_CHAR[(i % Len(S64_CHAR)) + 1]>>

RECURSIVE s67encode(_)
s67encode(i) ==
    IF i = 0 THEN <<>>
    ELSE s67encode(i \div Len(S67_CHAR)) \o <<S67_CHAR[(i % Len(S67_CHAR)) + 1]>>

\* S67_CHAR.indexOf(ch)
S67indexOf(ch) ==
    IF \E k \in 1..Len(S67_CHAR) : S67_CHAR[k] = ch
    THEN (CHOOSE k \in 1..Len(S67_CHAR) : S67_CHAR[k] = ch) - 1
    ELSE -1

\* the loop of s67decode from position j on, with i the value so far
RECURSIVE s67decodeFrom(_, _, _)
s67decodeFrom(str, j, i) ==
    IF j > Len(str) THEN i
    ELSE s67decodeFrom(str, j + 1, i * Len(S67_CHAR) + S67indexOf(str[j]))

s67decode(str) == s67decodeFrom(str, 1, 0)

\* variant: the string is left as short as it is
padStart_None(str, targetLength, padString) == str

RECURSIVE padStart(_, _, _)
padStart(str, targetLength, padString) ==
    IF Len(str) >= targetLength THEN str
    ELSE padStart(<<padString>> \o str, targetLength, padString)

\* ShortId.createRaw
ShortIdCreateRaw(timestamp, clockid) ==
    padStart(s64encode(clockid), 2, S64_CHAR[1]) \o s64encode(timestamp)

\* ShortId2.createRaw
ShortId2CreateRaw(timestamp, clockid) ==
    padStart(s67encode(clockid), 2, S67_CHAR[1]) \o s67encode(timestamp)

\* variant: the second argument is not looked at (and a negative first
\* argument counts as 0)
MathMax_IgnoringLast(a, b) == IF a >= 0 THEN a ELSE 0

MathMax(a, b) == IF a >= b THEN a ELSE b

\* the last two calls of a generator, the newest last
Latest(calls2, call) ==
    IF calls2 = <<>> THEN <<call>> ELSE <<calls2[Len(calls2)], call>>

(***************************************************************************)
(* KittyAgent.paginationHelper (agent.ts:253-296).  An item is what        *)
(* resultsEqual compares (the uri of a record, a cid, the did of a repo);  *)
(* a page is the list getResults takes from one response.                  *)
(***************************************************************************)
PER_PAGE == 100

MaxItems == 3       \* distinct items the server has
MaxPage == 2        \* items in one page of the server

Items == 1..MaxItems

Pages == UNION {[1..n -> Items] : n \in 0..MaxPage}

\* data.cursor: absent, empty or a cursor
Cursors == {"undefined", "", "c1"}

Number(n) == [type |-> "number", value |-> n]

\* params.limit of the callers (agent.ts:298-355)
CallerLimits == {undefined} \cup {Number(n) : n \in {1, 2, PER_PAGE, PER_PAGE + 1}}

\* the limit passed to query (agent.ts:266-270); limit / PER_PAGE > 1 is a
\* comparison of reals
perPage(limit) ==
    IF limit = undefined THEN PER_PAGE
    ELSE IF limit.value > 1 * PER_PAGE THEN PER_PAGE
    ELSE limit.value

resultsEqual(a, b) == a = b

\* variant: no item is ever recognised
find_Nothing(results, e) == undefined

\* results.find(e1 => resultsEqual(e1, e)): the first equal element, which
\* is a record object (or a cid, a non-empty string), or undefined
find(results, e) ==
    IF \E i \in DOMAIN results : resultsEqual(results[i], e)
    THEN LET i == CHOOSE i \in DOMAIN results :
                     /\ resultsEqual(results[i], e)
                     /\ \A j \in 1..(i - 1) : ~resultsEqual(results[j], e)
         IN  [typeof |-> "object", item |-> results[i]]
    ELSE undefined

\* theseResults.every(e => results.find(...)) (agent.ts:275-277)
every(theseResults, results) ==
    \A i \in DOMAIN theseResults : Truthy(find(results, theseResults[i]))

IdlePager ==
    [pc |-> "idle", L |-> undefined, limit |-> undefined, results |-> <<>>,
     cursor |-> "undefined", asked |-> 0, requests |-> 0, obeyed |-> TRUE,
     page |-> <<>>, stop |-> ""]

(***************************************************************************)
(* Construction (useLocalStorage and the constructor around it).           *)
(***************************************************************************)
Init ==
    /\ constructed = FALSE
    /\ localStorage \in
          { <<>>, [user |-> <<"null">>] }
             \cup { [user |-> JSONstringify(a)] : a \in PersistedAccounts }
    /\ sessions \in SUBSET Dids
    /\ account = undefined
    /\ agent = undefined
    /\ client = undefined
    /\ didCache = <<>>
    /\ didPdsCache = <<>>
    /\ calls = [c \in CallIds |-> IdleCall]
    /\ initialSessionPromise = "undefined"
    /\ waiter = [w \in Waiters |-> "idle"]
    /\ bodyStarts = 0
    /\ revoke = "idle"
    /\ ret = NoReturn
    /\ reloads = 0
    /\ lookups = [l \in LookupIds |-> IdleLookup]
    /\ idret = NoLookupReturn
    /\ firstTuple = <<>>
    /\ sample = NoSample
    /\ lastTimestamp = [g \in Generators |-> 0]
    /\ issued = [g \in Generators |-> <<>>]
    /\ nowCalls = 0
    /\ pager = IdlePager

Construct ==
    /\ ~constructed
    /\ constructed' = TRUE
    /\ LET seeded == StorageSeed(localStorage, "user", undefined)
       IN  /\ account' = seeded
           /\ localStorage' = StorageWrite(localStorage, "user", seeded)
    /\ agent' = undefined
    /\ client' = undefined
    /\ ret' = NoReturn
    /\ UNCHANGED <<sessions, didCache, didPdsCache, calls, initialSessionPromise,
                   waiter, bodyStarts, revoke, reloads>>
    /\ UNCHANGED idvars

(***************************************************************************)
(* authenticateIfNecessary(handle, refreshOnly), called by the application.*)
(***************************************************************************)
Authenticate(c, handle, refreshOnly) ==
    /\ constructed /\ ~Busy
    /\ calls[c].pc = "idle"
    /\ Step(c, AuthBegin(handle, refreshOnly))
    /\ UNCHANGED <<constructed, localStorage, sessions, account, agent, client,
                   didCache, didPdsCache, bodyStarts, revoke, reloads>>
    /\ UNCHANGED idvars

\* a strategy succeeded: the handle is cached (part_003:18-28)
ResolveOk(c, d) ==
    /\ ~Busy
    /\ calls[c].pc = "resolving"
    /\ d \in NetworkDids(calls[c].handle)
    /\ didCache' = (calls[c].handle :> d) @@ didCache
    /\ Step(c, IF calls[c].phase = "identity"
               THEN [calls[c] EXCEPT !.pc = "fetchingDoc", !.did = d]
               ELSE [calls[c] EXCEPT !.pc = "gettingSession", !.sdid = d,
                                     !.effects = @ \cup {"getSession"}])
    /\ UNCHANGED <<constructed, localStorage, sessions, account, agent, client,
                   didPdsCache, bodyStarts, revoke, reloads>>
    /\ UNCHANGED idvars

\* variant: the rejection is caught wherever it happens
ResolutionFailed_Caught(call) == NoSession(call)

\* resolveHandleAnonymously rejected: getDidAndPds and with it
\* authenticateIfNecessary reject (oauth-stateful-base.ts:65), while
\* oauthAuthenticateOrRefresh catches it (part_001:54-61)
ResolutionFailed(call) ==
    IF call.phase = "identity"
    THEN Settled(call, "throw", "resolution")
    ELSE NoSession(call)

\* both strategies failed (part_003:22-24)
ResolveFail(c) ==
    /\ ~Busy
    /\ calls[c].pc = "resolving"
    /\ Step(c, ResolutionFailed(calls[c]))
    /\ UNCHANGED <<constructed, localStorage, sessions, account, agent, client,
                   didCache, didPdsCache, bodyStarts, revoke, reloads>>
    /\ UNCHANGED idvars

\* getDidDocument resolved with `doc` (pds-helpers.ts:14-20)
DocumentOk(c, doc) ==
    /\ ~Busy
    /\ calls[c].pc = "fetchingDoc"
    /\ LET pds == getPdsEndpoint(doc)
           key == calls[c].handle
       IN  IF pds = "undefined"
           THEN /\ Step(c, Settled(calls[c], "throw", "no pds"))
                /\ UNCHANGED didPdsCache
           ELSE /\ didPdsCache' =
                      (key :> [did |-> calls[c].did, pds |-> pds,
                               didDocument |-> doc]) @@ didPdsCache
                /\ Step(c, [calls[c] EXCEPT !.pc = "gotDidPds", !.pds = pds])
    /\ UNCHANGED <<constructed, localStorage, sessions, account, agent, client,
                   didCache, bodyStarts, revoke, reloads>>
    /\ UNCHANGED idvars

\* getDidDocument rejected: not found, unreachable, invalid, unsupported
DocumentFail(c) ==
    /\ ~Busy
    /\ calls[c].pc = "fetchingDoc"
    /\ Step(c, Settled(calls[c], "throw", "document"))
    /\ UNCHANGED <<constructed, localStorage, sessions, account, agent, client,
                   didCache, didPdsCache, bodyStarts, revoke, reloads>>
    /\ UNCHANGED idvars

\* the provisional Account, then oauthAuthenticateOrRefresh
\* (oauth-stateful-base.ts:66-70)
SetAccount(c) ==
    /\ ~Busy
    /\ calls[c].pc = "gotDidPds"
    /\ LET value == Account(calls[c].did, calls[c].pds, calls[c].handle)
       IN  /\ account' = value
           /\ localStorage' = StorageWrite(localStorage, "user", value)
    /\ Step(c, OAuthBegin([calls[c] EXCEPT !.effects = @ \cup {"account"}]))
    /\ UNCHANGED <<constructed, sessions, agent, client, didCache, didPdsCache,
                   bodyStarts, revoke, reloads>>
    /\ UNCHANGED idvars

\* getSession resolved: the Agent is written (oauth-stateful-base.ts:73-74)
SessionOk(c) ==
    /\ ~Busy
    /\ calls[c].pc = "gettingSession"
    /\ calls[c].sdid \in sessions
    /\ agent' = KittyAgent(OAuthUserAgent(Session(calls[c].sdid)))
    /\ Step(c, [calls[c] EXCEPT !.pc = "setClient", !.effects = @ \cup {"agent"}])
    /\ UNCHANGED <<constructed, localStorage, sessions, account, client, didCache,
                   didPdsCache, bodyStarts, revoke, reloads>>
    /\ UNCHANGED idvars

\* the Client is written and the call returns true (oauth-stateful-base.ts:75-77)
SetClient(c) ==
    /\ calls[c].pc = "setClient"
    /\ client' = createClient(calls[c].did, calls[c].pds, calls[c].handle, agent)
    /\ Step(c, Settled([calls[c] EXCEPT !.effects = @ \cup {"client"}], "true", ""))
    /\ UNCHANGED <<constructed, localStorage, sessions, account, agent, didCache,
                   didPdsCache, bodyStarts, revoke, reloads>>
    /\ UNCHANGED idvars

\* variant: a call that finds no session clears the Account
SessionFail_Clearing(c) ==
    /\ ~Busy
    /\ calls[c].pc = "gettingSession"
    /\ Step(c, NoSession(calls[c]))
    /\ account' = undefined
    /\ localStorage' = StorageWrite(localStorage, "user", undefined)
    /\ UNCHANGED <<constructed, sessions, agent, client, didCache, didPdsCache,
                   bodyStarts, revoke, reloads>>
    /\ UNCHANGED idvars

\* getSession rejected (no stored session, or the refresh failed); caught
SessionFail(c) ==
    /\ ~Busy
    /\ calls[c].pc = "gettingSession"
    /\ Step(c, NoSession(calls[c]))
    /\ UNCHANGED <<constructed, localStorage, sessions, account, agent, client,
                   didCache, didPdsCache, bodyStarts, revoke, reloads>>
    /\ UNCHANGED idvars

(***************************************************************************)
(* oauthAuthenticate (part_001:24-47).                                     *)
(***************************************************************************)
\* the authorization request is built; the 200 ms delay starts
AuthorizeOk(c) ==
    /\ ~Busy
    /\ calls[c].pc = "authorizing"
    /\ Step(c, [calls[c] EXCEPT !.pc = "delay"])
    /\ UNCHANGED <<constructed, localStorage, sessions, account, agent, client,
                   didCache, didPdsCache, bodyStarts, revoke, reloads>>
    /\ UNCHANGED idvars

\* resolveFromIdentity or createAuthorizationUrl rejected
AuthorizeFail(c) ==
    /\ ~Busy
    /\ calls[c].pc = "authorizing"
    /\ Step(c, Settled(calls[c], "throw", "authorize"))
    /\ UNCHANGED <<constructed, localStorage, sessions, account, agent, client,
                   didCache, didPdsCache, bodyStarts, revoke, reloads>>
    /\ UNCHANGED idvars

\* variant: the watchdog starts without the navigation
Redirected_NoNavigation(call) == [call EXCEPT !.pc = "watchdog"]

\* the delay has elapsed: document.location.href = authUrl, then the watchdog
Redirected(call) ==
    [call EXCEPT !.pc = "watchdog", !.effects = @ \cup {"redirect"}]

\* document.location.href = authUrl; the watchdog starts
Redirect(c) ==
    /\ ~Busy
    /\ calls[c].pc = "delay"
    /\ Step(c, Redirected(calls[c]))
    /\ UNCHANGED <<constructed, localStorage, sessions, account, agent, client,
                   didCache, didPdsCache, bodyStarts, revoke, reloads>>
    /\ UNCHANGED idvars

\* the page is still there after 100 s
Watchdog(c) ==
    /\ ~Busy
    /\ calls[c].pc = "watchdog"
    /\ Step(c, Settled(calls[c], "throw", "unreachable code"))
    /\ UNCHANGED <<constructed, localStorage, sessions, account, agent, client,
                   didCache, didPdsCache, bodyStarts, revoke, reloads>>
    /\ UNCHANGED idvars

(***************************************************************************)
(* waitForInitialSession (oauth-stateful-base.ts:85-99).                   *)
(***************************************************************************)
\* variant: a settled promise is not kept
NoInitialSessionPromise_Unsettled == initialSessionPromise # "pending"

\* !this.initialSessionPromise
NoInitialSessionPromise == initialSessionPromise = "undefined"

\* callers are interchangeable: the next caller is the lowest idle one.  The
\* caller awaits the memoized promise; a settled promise completes the await
\* at once.
WaitForInitialSession(w) ==
    /\ constructed /\ ~Busy
    /\ waiter[w] = "idle"
    /\ \A v \in 1..(w - 1) : waiter[v] # "idle"
    /\ LET calling == [waiter EXCEPT ![w] = "awaiting"]
           awaited(promise) ==
               [calling EXCEPT ![w] =
                   IF promise = "pending" THEN "awaiting"
                   ELSE IF promise = "fulfilled" THEN "returned" ELSE "threw"]
       IN  IF NoInitialSessionPromise
           THEN /\ bodyStarts' = bodyStarts + 1
                /\ IF Truthy(account)
                   THEN LET call == AuthBegin(account.handle, TRUE)
                            promise == IF call.pc = "done" THEN "fulfilled"
                                       ELSE "pending"
                        IN  /\ StepCall(InitCall, call)
                            /\ initialSessionPromise' = promise
                            /\ waiter' = awaited(promise)
                   ELSE /\ initialSessionPromise' = "fulfilled"
                        /\ waiter' = awaited("fulfilled")
                        /\ ret' = NoReturn
                        /\ UNCHANGED calls
           ELSE /\ waiter' = awaited(initialSessionPromise)
                /\ ret' = NoReturn
                /\ UNCHANGED <<bodyStarts, calls, initialSessionPromise>>
    /\ UNCHANGED <<constructed, localStorage, sessions, account, agent, client,
                   didCache, didPdsCache, revoke, reloads>>
    /\ UNCHANGED idvars

(***************************************************************************)
(* revokeSessions (oauth-stateful-base.ts:80-83, part_001:77-81).          *)
(***************************************************************************)
\* variant: only the session of the current Account is listed
listStoredSessions_Current ==
    IF Truthy(account) THEN sessions \cap {account.did} ELSE {}

listStoredSessions == sessions

deleteStoredSession(stored, key) == stored \ {key}

RECURSIVE DeleteAll(_, _)
DeleteAll(stored, keys) ==
    IF keys = {} THEN stored
    ELSE LET key == CHOOSE k \in keys : TRUE
         IN  DeleteAll(deleteStoredSession(stored, key), keys \ {key})

\* super.revokeSessions(): every listed session is deleted
RevokeSessions ==
    /\ constructed /\ ~Busy
    /\ sessions' = DeleteAll(sessions, listStoredSessions)
    /\ revoke' = "deleted"
    /\ ret' = NoReturn
    /\ UNCHANGED <<constructed, localStorage, account, agent, client, didCache,
                   didPdsCache, calls, initialSessionPromise, waiter, bodyStarts,
                   reloads>>
    /\ UNCHANGED idvars

\* variant: the Agent and the Client are cleared with the Account
RevokeAccount_ClearingAll ==
    /\ revoke = "deleted"
    /\ account' = undefined
    /\ agent' = undefined
    /\ client' = undefined
    /\ localStorage' = StorageWrite(localStorage, "user", undefined)
    /\ revoke' = "idle"
    /\ ret' = [op |-> "revokeSessions"]
    /\ UNCHANGED <<constructed, sessions, didCache, didPdsCache,
                   calls, initialSessionPromise, waiter, bodyStarts, reloads>>
    /\ UNCHANGED idvars

\* this.internal_account = undefined
RevokeAccount ==
    /\ revoke = "deleted"
    /\ account' = undefined
    /\ localStorage' = StorageWrite(localStorage, "user", undefined)
    /\ revoke' = "idle"
    /\ ret' = [op |-> "revokeSessions"]
    /\ UNCHANGED <<constructed, sessions, agent, client, didCache, didPdsCache,
                   calls, initialSessionPromise, waiter, bodyStarts, reloads>>
    /\ UNCHANGED idvars

(***************************************************************************)
(* The page goes away (the redirect went through, or the user reloads) and *)
(* is loaded again: module state and slots are gone, localStorage and the  *)
(* OAuth session storage stay.  Coming back from the authorization server  *)
(* may have stored a session.                                              *)
(***************************************************************************)
Reload(granted) ==
    /\ constructed /\ ~Busy
    /\ reloads < MaxReloads
    /\ granted # {} => \E c \in CallIds : calls[c].pc = "watchdog"
    /\ reloads' = reloads + 1
    /\ sessions' = sessions \cup granted
    /\ constructed' = FALSE
    /\ account' = undefined
    /\ agent' = undefined
    /\ client' = undefined
    /\ didCache' = <<>>
    /\ didPdsCache' = <<>>
    /\ calls' = [c \in CallIds |-> IdleCall]
    /\ initialSessionPromise' = "undefined"
    /\ waiter' = [w \in Waiters |-> "idle"]
    /\ bodyStarts' = 0
    /\ revoke' = "idle"
    /\ ret' = NoReturn
    /\ UNCHANGED localStorage
    /\ UNCHANGED idvars

Next ==
    \/ Construct
    \/ \E c \in UserCalls, h \in Inputs, r \in BOOLEAN : Authenticate(c, h, r)
    \/ \E c \in CallIds, d \in Dids : ResolveOk(c, d)
    \/ \E c \in CallIds : ResolveFail(c)
    \/ \E c \in CallIds : \E doc \in Documents(calls[c].did) : DocumentOk(c, doc)
    \/ \E c \in CallIds : DocumentFail(c)
    \/ \E c \in CallIds : SetAccount(c)
    \/ \E c \in CallIds : SessionOk(c)
    \/ \E c \in CallIds : SetClient(c)
    \/ \E c \in CallIds : SessionFail(c)
    \/ \E c \in CallIds : AuthorizeOk(c)
    \/ \E c \in CallIds : AuthorizeFail(c)
    \/ \E c \in CallIds : Redirect(c)
    \/ \E c \in CallIds : Watchdog(c)
    \/ \E w \in Waiters : WaitForInitialSession(w)
    \/ RevokeSessions
    \/ RevokeAccount

Spec == Init /\ [][Next]_vars

(***************************************************************************)
(* Several pages one after the other over the same storage; the            *)
(* application's own calls only.                                           *)
(***************************************************************************)
NextPages ==
    \/ Construct
    \/ \E c \in UserCalls, h \in Inputs, r \in BOOLEAN : Authenticate(c, h, r)
    \/ \E c \in UserCalls, d \in Dids : ResolveOk(c, d)
    \/ \E c \in UserCalls : ResolveFail(c)
    \/ \E c \in UserCalls : \E doc \in Documents(calls[c].did) : DocumentOk(c, doc)
    \/ \E c \in UserCalls : DocumentFail(c)
    \/ \E c \in UserCalls : SetAccount(c)
    \/ \E c \in UserCalls : SessionOk(c)
    \/ \E c \in UserCalls : SetClient(c)
    \/ \E c \in UserCalls : SessionFail(c)
    \/ \E c \in UserCalls : AuthorizeOk(c)
    \/ \E c \in UserCalls : AuthorizeFail(c)
    \/ \E c \in UserCalls : Redirect(c)
    \/ \E c \in UserCalls : Watchdog(c)
    \/ RevokeSessions
    \/ RevokeAccount
    \/ \E g \in {{}} \cup {{d} : d \in Dids} : Reload(g)

SpecPages == Init /\ [][NextPages]_vars

(***************************************************************************)
(* One operation at a time: an operation is started only when no other is  *)
(* in flight.                                                              *)
(***************************************************************************)
Quiet == revoke = "idle" /\ \A c \in CallIds : calls[c].pc = "idle"

NextSequential ==
    \/ Construct
    \/ \E c \in UserCalls, h \in Inputs, r \in BOOLEAN :
          Quiet /\ Authenticate(c, h, r)
    \/ \E c \in CallIds, d \in Dids : ResolveOk(c, d)
    \/ \E c \in CallIds : ResolveFail(c)
    \/ \E c \in CallIds : \E doc \in Documents(calls[c].did) : DocumentOk(c, doc)
    \/ \E c \in CallIds : DocumentFail(c)
    \/ \E c \in CallIds : SetAccount(c)
    \/ \E c \in CallIds : SessionOk(c)
    \/ \E c \in CallIds : SetClient(c)
    \/ \E c \in CallIds : SessionFail(c)
    \/ \E c \in CallIds : AuthorizeOk(c)
    \/ \E c \in CallIds : AuthorizeFail(c)
    \/ \E c \in CallIds : Redirect(c)
    \/ \E c \in CallIds : Watchdog(c)
    \/ \E w \in Waiters : Quiet /\ WaitForInitialSession(w)
    \/ Quiet /\ RevokeSessions
    \/ RevokeAccount

SpecSequential == Init /\ [][NextSequential]_vars

(***************************************************************************)
(* The identity layer called directly: resolveHandleAnonymously            *)
(* (part_003:7-29) and getDidAndPds (pds-helpers.ts:8-21).                 *)
(***************************************************************************)
\* lookup l goes on as `next`, or has settled as `next`
StepLookup(l, next) ==
    IF next.pc = "done"
    THEN /\ lookups' = [lookups EXCEPT ![l] = IdleLookup]
         /\ idret' = [op |-> next.op, lookup |-> l, key |-> next.key,
                      outcome |-> next.outcome,
                      http |-> next.http, doh |-> next.doh, first |-> next.first,
                      effects |-> next.effects]
         /\ firstTuple' =
               IF next.op = "getDidAndPds" /\ next.outcome.status = "fulfilled"
                     /\ next.key \notin DOMAIN firstTuple
               THEN (next.key :> next.outcome.value) @@ firstTuple
               ELSE firstTuple
    ELSE /\ lookups' = [lookups EXCEPT ![l] = next]
         /\ idret' = NoLookupReturn
         /\ UNCHANGED firstTuple

\* getDidAndPds once the DID is known: getDidDocument up to its request
AfterResolved(lk, did) ==
    LET request == DocumentRequest(did)
    IN  IF request \in {"directory", "well-known"}
        THEN [lk EXCEPT !.pc = "fetching", !.did = did, !.request = request,
                        !.effects = @ \cup {request}]
        ELSE LookupDone([lk EXCEPT !.did = did], Rejected(request))

\* the continuation of Promise.allSettled (part_003:18-28)
AllSettled(lk) ==
    LET picked == FirstFulfilled(<<lk.http, lk.doh>>)
    IN  IF picked.status = "rejected" THEN LookupDone(lk, picked)
        ELSE IF lk.op = "resolveHandleAnonymously"
        THEN LookupDone([lk EXCEPT !.did = picked.value,
                                   !.effects = @ \cup {"didCache.set"}],
                        Fulfilled(picked.value))
        ELSE AfterResolved([lk EXCEPT !.effects = @ \cup {"didCache.set"}],
                           picked.value)

\* a strategy has settled; with both settled the call goes on
StrategySettled(l, lk) ==
    IF lk.http = Pending \/ lk.doh = Pending
    THEN /\ StepLookup(l, lk)
         /\ UNCHANGED didCache
    ELSE /\ StepLookup(l, AllSettled(lk))
         /\ didCache' =
               LET picked == FirstFulfilled(<<lk.http, lk.doh>>)
               IN  IF picked.status = "fulfilled"
                   THEN (lk.key :> picked.value) @@ didCache
                   ELSE didCache

\* variant: nothing is ever found in the cache
didPdsCacheGet_Miss(key) == Pending

\* didPdsCache.has(key) / didPdsCache.get(key) (pds-helpers.ts:9-11)
didPdsCacheGet(key) ==
    IF key \in DOMAIN didPdsCache THEN Fulfilled(didPdsCache[key]) ELSE Pending

ResolveHandleAnonymously(l, handle) ==
    /\ lookups[l].pc = "idle"
    /\ LET start == ResolveStart(handle)
           lk == [IdleLookup EXCEPT !.op = "resolveHandleAnonymously",
                                    !.key = handle, !.effects = start.effects]
       IN  StepLookup(l, IF start.did = "pending"
                         THEN [lk EXCEPT !.pc = "strategies"]
                         ELSE LookupDone([lk EXCEPT !.did = start.did],
                                         Fulfilled(start.did)))
    /\ UNCHANGED <<didCache, didPdsCache, sample>>
    /\ UNCHANGED <<appvars, genvars>>

GetDidAndPds(l, key) ==
    /\ lookups[l].pc = "idle"
    /\ LET lk == [IdleLookup EXCEPT !.op = "getDidAndPds", !.key = key]
       IN  IF didPdsCacheGet(key) # Pending
           THEN StepLookup(l, LookupDone(
                    [lk EXCEPT !.effects = {"didPdsCache.has", "didPdsCache.get"}],
                    didPdsCacheGet(key)))
           ELSE LET start == ResolveStart(key)
                    began == [lk EXCEPT !.effects =
                                 {"didPdsCache.has"} \cup start.effects]
                IN  StepLookup(l, IF start.did = "pending"
                                  THEN [began EXCEPT !.pc = "strategies"]
                                  ELSE AfterResolved(began, start.did))
    /\ UNCHANGED <<didCache, didPdsCache, sample>>
    /\ UNCHANGED <<appvars, genvars>>

HttpSettles(l, response) ==
    /\ lookups[l].pc = "strategies"
    /\ lookups[l].http = Pending
    /\ StrategySettled(l, [lookups[l] EXCEPT
                              !.http = resolveHandleViaHttp(response),
                              !.first = IF @ = "" THEN "http" ELSE @])
    /\ UNCHANGED <<didPdsCache, sample>>
    /\ UNCHANGED <<appvars, genvars>>

DohSettles(l, response) ==
    /\ lookups[l].pc = "strategies"
    /\ lookups[l].doh = Pending
    /\ StrategySettled(l, [lookups[l] EXCEPT
                              !.doh = resolveHandleViaDoH(response),
                              !.first = IF @ = "" THEN "doh" ELSE @])
    /\ UNCHANGED <<didPdsCache, sample>>
    /\ UNCHANGED <<appvars, genvars>>

\* variant: the tuple is stored before the endpoint is tested
didPdsCacheAfter_Partial(key, did, doc) ==
    (key :> [did |-> did, pds |-> getPdsEndpoint(doc), didDocument |-> doc])
        @@ didPdsCache

\* variant: the tuple is stored under the resolved DID as well
didPdsCacheAfter_BothKeys(key, did, doc) ==
    IF getPdsEndpoint(doc) = "undefined" THEN didPdsCache
    ELSE LET tuple == [did |-> did, pds |-> getPdsEndpoint(doc),
                       didDocument |-> doc]
         IN  (key :> tuple) @@ (did :> tuple) @@ didPdsCache

\* the cache after getDidAndPds got the document (pds-helpers.ts:15-18): the
\* tuple is stored only past the test of the endpoint
didPdsCacheAfter(key, did, doc) ==
    IF getPdsEndpoint(doc) = "undefined" THEN didPdsCache
    ELSE (key :> [did |-> did, pds |-> getPdsEndpoint(doc), didDocument |-> doc])
            @@ didPdsCache

\* the document request was answered (pds-helpers.ts:14-20)
DocumentResponds(l, response) ==
    /\ lookups[l].pc = "fetching"
    /\ LET lk == lookups[l]
           result == DocumentResult(lk.request, response)
       IN  IF result.status = "rejected"
           THEN /\ StepLookup(l, LookupDone(lk, result))
                /\ UNCHANGED didPdsCache
           ELSE LET pds == getPdsEndpoint(result.value)
                    tuple == [did |-> lk.did, pds |-> pds,
                              didDocument |-> result.value]
                IN  /\ didPdsCache' = didPdsCacheAfter(lk.key, lk.did, result.value)
                    /\ IF pds = "undefined"
                       THEN StepLookup(l, LookupDone(lk, Rejected("No PDS")))
                       ELSE StepLookup(l, LookupDone(
                               [lk EXCEPT !.effects = @ \cup {"didPdsCache.set"}],
                               Fulfilled(tuple)))
    /\ UNCHANGED <<didCache, sample>>
    /\ UNCHANGED <<appvars, genvars>>

\* the document request failed (fetch rejects)
DocumentRequestFails(l) ==
    /\ lookups[l].pc = "fetching"
    /\ StepLookup(l, LookupDone(lookups[l], Rejected("fetch failed")))
    /\ UNCHANGED <<didCache, didPdsCache, sample>>
    /\ UNCHANGED <<appvars, genvars>>

\* a page that has not constructed a client and has no stored data
InitIdentity == Init /\ localStorage = <<>> /\ sessions = {}

NextIdentity ==
    \/ \E l \in LookupIds, h \in LookupKeys : ResolveHandleAnonymously(l, h)
    \/ \E l \in LookupIds, k \in LookupKeys : GetDidAndPds(l, k)
    \/ \E l \in LookupIds, response \in HttpResponses : HttpSettles(l, response)
    \/ \E l \in LookupIds, response \in DohReplies : DohSettles(l, response)
    \/ \E l \in LookupIds :
          \E response \in DocumentResponses(lookups[l].did) :
             DocumentResponds(l, response)
    \/ \E l \in LookupIds : DocumentRequestFails(l)

SpecIdentity == InitIdentity /\ [][NextIdentity]_vars

\* the identity layer called by one caller at a time
QuietIdentity == \A l \in LookupIds : lookups[l].pc = "idle"

NextIdentitySequential ==
    \/ \E l \in LookupIds, h \in LookupKeys :
          QuietIdentity /\ ResolveHandleAnonymously(l, h)
    \/ \E l \in LookupIds, k \in LookupKeys :
          QuietIdentity /\ GetDidAndPds(l, k)
    \/ \E l \in LookupIds, response \in HttpResponses : HttpSettles(l, response)
    \/ \E l \in LookupIds, response \in DohReplies : DohSettles(l, response)
    \/ \E l \in LookupIds :
          \E response \in DocumentResponses(lookups[l].did) :
             DocumentResponds(l, response)
    \/ \E l \in LookupIds : DocumentRequestFails(l)

SpecIdentitySequential == InitIdentity /\ [][NextIdentitySequential]_vars

(***************************************************************************)
(* The helper functions, each applied once to an input.                    *)
(***************************************************************************)
MaxServices == 2

\* the service entries a document may list
ServiceEntries ==
    { [id |-> id, type |-> type, serviceEndpoint |-> endpoint] :
        id \in {"#atproto_pds", "did:plc:1#atproto_pds", "#atproto_labeler"},
        type \in {"AtprotoPersonalDataServer", "AtprotoLabeler"},
        endpoint \in { Str(u) : u \in UrlStrings } \cup {Obj} }

ServiceDocuments ==
    { [id |-> "did:plc:1", service |-> service] :
        service \in UNION { [1..n -> ServiceEntries] : n \in 0..MaxServices } }

\* the (serviceId, serviceType) pairs the application asks for
ServiceQueries ==
    { <<"#atproto_pds", "AtprotoPersonalDataServer">>,
      <<"#atproto_labeler", "AtprotoLabeler">> }

ApplyResolveHandleViaHttp(response) ==
    /\ sample = NoSample
    /\ sample' = [fn |-> "resolveHandleViaHttp", input |-> response,
                  output |-> resolveHandleViaHttp(response)]
    /\ UNCHANGED <<didCache, didPdsCache, lookups, idret, firstTuple>>
    /\ UNCHANGED <<appvars, genvars>>

ApplyResolveHandleViaDoH(response) ==
    /\ sample = NoSample
    /\ sample' = [fn |-> "resolveHandleViaDoH", input |-> response,
                  output |-> resolveHandleViaDoH(response)]
    /\ UNCHANGED <<didCache, didPdsCache, lookups, idret, firstTuple>>
    /\ UNCHANGED <<appvars, genvars>>

ApplyGetServiceEndpoint(doc, serviceId, serviceType) ==
    /\ sample = NoSample
    /\ sample' = [fn |-> "getServiceEndpoint", input |-> doc,
                  serviceId |-> serviceId, serviceType |-> serviceType,
                  output |-> getServiceEndpoint(doc, serviceId, serviceType)]
    /\ UNCHANGED <<didCache, didPdsCache, lookups, idret, firstTuple>>
    /\ UNCHANGED <<appvars, genvars>>

\* getDidDocument(did) with `response` the answer to its request, if it sends one
ApplyGetDidDocument(did, response) ==
    /\ sample = NoSample
    /\ LET request == DocumentRequest(did)
       IN  sample' = [fn |-> "getDidDocument", input |-> did, request |-> request,
                      response |-> response,
                      output |-> IF request \in {"directory", "well-known"}
                                 THEN DocumentResult(request, response)
                                 ELSE Rejected(request)]
    /\ UNCHANGED <<didCache, didPdsCache, lookups, idret, firstTuple>>
    /\ UNCHANGED <<appvars, genvars>>

NextFunctions ==
    \/ sample = NoSample /\ \E response \in HttpResponses :
          ApplyResolveHandleViaHttp(response)
    \/ sample = NoSample /\ \E response \in DohResponses :
          ApplyResolveHandleViaDoH(response)
    \/ sample = NoSample /\ \E doc \in ServiceDocuments, query \in ServiceQueries :
          ApplyGetServiceEndpoint(doc, query[1], query[2])
    \/ sample = NoSample /\ \E did \in LookupKeys \ {"a.test"} :
          \E response \in DocumentResponses(did) :
             ApplyGetDidDocument(did, response)

SpecFunctions == InitIdentity /\ [][NextFunctions]_vars

(***************************************************************************)
(* The ID generators called by the application: ShortId.now() and          *)
(* ShortId2.now(epoch), each with its own lastTimestamp.                   *)
(***************************************************************************)
MaxIds == 3

ShortIdNow(reading, clockid) ==
    /\ nowCalls < MaxIds
    /\ nowCalls' = nowCalls + 1
    /\ LET timestamp == MathMax(reading - EPOCH["ShortId"], lastTimestamp["ShortId"])
       IN  /\ lastTimestamp' = [lastTimestamp EXCEPT !["ShortId"] = timestamp + 1]
           /\ issued' = [issued EXCEPT !["ShortId"] =
                            Latest(@, [id |-> ShortIdCreateRaw(timestamp, clockid),
                                       reading |-> reading,
                                       epoch |-> EPOCH["ShortId"]])]
    /\ UNCHANGED <<didCache, didPdsCache, lookups, idret, firstTuple, sample, pager>>
    /\ UNCHANGED appvars

ShortId2Now(epoch, reading, clockid) ==
    /\ nowCalls < MaxIds
    /\ nowCalls' = nowCalls + 1
    /\ LET timestamp == MathMax(reading - epoch, lastTimestamp["ShortId2"])
       IN  /\ lastTimestamp' = [lastTimestamp EXCEPT !["ShortId2"] = timestamp + 1]
           /\ issued' = [issued EXCEPT !["ShortId2"] =
                            Latest(@, [id |-> ShortId2CreateRaw(timestamp, clockid),
                                       reading |-> reading,
                                       epoch |-> epoch])]
    /\ UNCHANGED <<didCache, didPdsCache, lookups, idret, firstTuple, sample, pager>>
    /\ UNCHANGED appvars

NextShortId ==
    \/ \E reading \in Readings, clockid \in ClockIds : ShortIdNow(reading, clockid)
    \/ \E epoch \in Epochs, reading \in Readings, clockid \in ClockIds :
          ShortId2Now(epoch, reading, clockid)

SpecShortId == InitIdentity /\ [][NextShortId]_vars

(***************************************************************************)
(* The pagination helper called by paginatedList, paginatedListBlobs and   *)
(* paginatedListRepos; the server answers each query with any page and any *)
(* cursor.                                                                 *)
(***************************************************************************)
MaxRequests == MaxItems + 2

\* the call up to its first query (agent.ts:260-270)
PaginationHelper(limit) ==
    /\ pager.pc = "idle"
    /\ pager' = [IdlePager EXCEPT !.pc = "querying", !.L = limit, !.limit = limit,
                                  !.asked = perPage(limit), !.requests = 1]
    /\ UNCHANGED <<didCache, didPdsCache, lookups, idret, firstTuple, sample,
                   lastTimestamp, issued, nowCalls>>
    /\ UNCHANGED appvars

\* the query was answered: the rest of the iteration and, if the loop goes
\* on, the next query (agent.ts:272-292)
QueryResponds(theseResults, cursor) ==
    /\ pager.pc = "querying"
    /\ LET got == [pager EXCEPT !.page = theseResults,
                                !.obeyed = @ /\ Len(theseResults) <= pager.asked]
       IN  IF Len(theseResults) = 0
           THEN pager' = [got EXCEPT !.pc = "done", !.stop = "empty"]
           ELSE IF every(theseResults, pager.results)
           THEN pager' = [got EXCEPT !.pc = "done", !.stop = "known"]
           ELSE LET limit == IF pager.limit # undefined
                             THEN Number(pager.limit.value - Len(theseResults))
                             ELSE pager.limit
                    pushed == [got EXCEPT !.limit = limit,
                                          !.results = @ \o theseResults,
                                          !.cursor = cursor]
                IN  IF cursor \in {"undefined", ""}
                    THEN pager' = [pushed EXCEPT !.pc = "done", !.stop = "nocursor"]
                    ELSE /\ pager.requests < MaxRequests
                         /\ pager' = [pushed EXCEPT !.asked = perPage(limit),
                                                    !.requests = @ + 1]
    /\ UNCHANGED <<didCache, didPdsCache, lookups, idret, firstTuple, sample,
                   lastTimestamp, issued, nowCalls>>
    /\ UNCHANGED appvars

\* the query rejected, and the helper with it
QueryFails ==
    /\ pager.pc = "querying"
    /\ pager' = [pager EXCEPT !.pc = "done", !.stop = "threw"]
    /\ UNCHANGED <<didCache, didPdsCache, lookups, idret, firstTuple, sample,
                   lastTimestamp, issued, nowCalls>>
    /\ UNCHANGED appvars

NextPagination ==
    \/ \E limit \in CallerLimits : PaginationHelper(limit)
    \/ \E theseResults \in Pages, cursor \in Cursors :
          QueryResponds(theseResults, cursor)
    \/ QueryFails

SpecPagination == InitIdentity /\ [][NextPagination]_vars

(***************************************************************************)
(* Properties.                                                             *)
(***************************************************************************)
AuthorizationEffects == {"authorize", "redirect"}

\* C1: User is defined exactly when Account, Agent and Client are all
\* defined, and when it is defined its handle, DID and hosting endpoint are
\* those of the current Account.
C1_UserIsProjection ==
    /\ Truthy(user) <=> (Truthy(account) /\ Truthy(agent) /\ Truthy(client))
    /\ Truthy(user) =>
          /\ user.handle = account.handle
          /\ user.did = account.did
          /\ user.pds = account.pds

C1_LoggedIn ==
    constructed /\ Truthy(account) /\ Truthy(agent) /\ Truthy(client) /\ Truthy(user)

\* C2: a call of authenticateIfNecessary that is made while User is defined
\* and Account.handle is the requested handle returns true in the step that
\* starts it, for either value of refreshOnly, having resolved no identity,
\* looked up no session and redirected nowhere, and that step leaves Account,
\* Agent, Client, storage, the stored sessions and the caches as they were.
C2_ShortCircuitReturnsTrue ==
    [][\A c \in CallIds, h \in Handles, r \in BOOLEAN :
          LET started ==
                /\ calls[c].pc = "idle"
                /\ \/ /\ calls'[c].pc # "idle"
                      /\ calls'[c].handle = h
                      /\ calls'[c].refreshOnly = r
                   \/ /\ ret'.op = "authenticateIfNecessary"
                      /\ ret'.call = c
                      /\ ret'.handle = h
                      /\ ret'.refreshOnly = r
          IN  (Truthy(user) /\ account.handle = h /\ started) =>
                 /\ ret'.op = "authenticateIfNecessary"
                 /\ ret'.call = c
                 /\ ret'.result = "true"
                 /\ ret'.effects = {}
                 /\ UNCHANGED <<account, agent, client, localStorage, sessions,
                                didCache, didPdsCache>>]_vars

C2_ShortCircuited ==
    /\ ret.op = "authenticateIfNecessary"
    /\ ~ret.refreshOnly
    /\ ret.result = "true"
    /\ ret.effects = {}
    /\ Truthy(user)
    /\ user.handle = ret.handle

\* C3: the auto-login body of waitForInitialSession is started at most once
\* per client; it is in flight only while the memoized promise is pending;
\* and every caller is suspended on, or has completed with, the outcome of
\* that one promise, whatever revokeSessions or a login did in between.
C3_InitialSessionOnce ==
    /\ bodyStarts <= 1
    /\ (bodyStarts = 0) <=> (initialSessionPromise = "undefined")
    /\ calls[InitCall].pc # "idle" => initialSessionPromise = "pending"
    /\ \A w \in Waiters :
          /\ waiter[w] = "awaiting" => initialSessionPromise = "pending"
          /\ waiter[w] = "returned" => initialSessionPromise = "fulfilled"
          /\ waiter[w] = "threw" => initialSessionPromise = "rejected"

C3_TwoCallersOneBody ==
    /\ bodyStarts = 1
    /\ calls[InitCall].pc # "idle"
    /\ waiter[1] = "awaiting"
    /\ waiter[2] = "awaiting"

\* C4: when revokeSessions has returned, Account is undefined, storage holds
\* 'null' under 'user' and no OAuth session is stored; and the sessions are
\* already gone at the moment Account is about to be cleared.
C4_RevokeClearsEverything ==
    /\ revoke = "deleted" => sessions = {}
    /\ ret.op = "revokeSessions" =>
          /\ account = undefined
          /\ "user" \in DOMAIN localStorage
          /\ localStorage["user"] = <<"null">>
          /\ sessions = {}

C4_RevokedWhileLoggedIn ==
    ret.op = "revokeSessions" /\ Truthy(agent) /\ Truthy(client)

\* C5: a call with refreshOnly = true, and so the auto-login of
\* waitForInitialSession, never builds an authorization request and never
\* redirects; when it got as far as the session lookup and obtained no
\* session it returns false.
C5_RefreshOnlyIsSilent ==
    /\ calls[InitCall].pc # "idle" => calls[InitCall].refreshOnly
    /\ \A c \in CallIds :
          calls[c].refreshOnly =>
             /\ calls[c].pc \notin {"authorizing", "delay", "watchdog"}
             /\ calls[c].effects \cap AuthorizationEffects = {}
    /\ (ret.op = "authenticateIfNecessary" /\ (ret.refreshOnly \/ ret.call = InitCall)) =>
          /\ ret.refreshOnly
          /\ ret.effects \cap AuthorizationEffects = {}
          /\ ("account" \in ret.effects /\ "agent" \notin ret.effects) =>
                ret.result = "false"

C5_AutoLoginFoundNoSession ==
    /\ ret.op = "authenticateIfNecessary"
    /\ ret.call = InitCall
    /\ "getSession" \in ret.effects
    /\ ret.result = "false"

\* C6: with one operation at a time, a call of authenticateIfNecessary that
\* returns true after a session lookup leaves an Agent that wraps the session
\* it obtained, a Client made by the factory from its handle, DID, hosting
\* endpoint and that Agent, and a defined User whose handle is the requested
\* one and whose DID and hosting endpoint are the ones resolved for it.
C6_SilentLoginPublishes ==
    (ret.op = "authenticateIfNecessary" /\ ret.result = "true"
        /\ "getSession" \in ret.effects) =>
       /\ agent = KittyAgent(OAuthUserAgent(Session(ret.sdid)))
       /\ client = createClient(ret.did, ret.pds, ret.handle, agent)
       /\ Truthy(user)
       /\ user.handle = ret.handle
       /\ user.did = ret.did
       /\ user.pds = ret.pds
       /\ user.agent = agent
       /\ user.client = client
       /\ ret.handle \in DOMAIN didPdsCache
       /\ didPdsCache[ret.handle].did = ret.did
       /\ didPdsCache[ret.handle].pds = ret.pds

C6_SilentLoginReturned ==
    /\ ret.op = "authenticateIfNecessary"
    /\ ret.result = "true"
    /\ "client" \in ret.effects
    /\ ret.handle = "b.test"
    /\ ret.sdid \in sessions

\* C7: once the client is constructed, storage holds under 'user' the
\* serialisation of the current Account: the literal 'null' when it is
\* undefined, its JSON text otherwise.
C7_StorageMirrorsAccount ==
    constructed =>
       /\ "user" \in DOMAIN localStorage
       /\ localStorage["user"] =
             IF account = undefined THEN <<"null">> ELSE JSONstringify(account)

C7_AccountWrittenByLogin ==
    /\ constructed
    /\ Truthy(account)
    /\ account.handle = "b.test"
    /\ localStorage["user"] = JSONstringify(account)

\* C8: construction seeds Account with the Account whose JSON text storage
\* holds under 'user', and with undefined when storage holds 'null' or
\* nothing; and at any time a client constructed over the current storage
\* would be seeded with the current Account.
C8_SeedingRoundTrips ==
    /\ [](constructed => StorageSeed(localStorage, "user", undefined) = account)
    /\ [][(~constructed /\ constructed') =>
             /\ ("user" \notin DOMAIN localStorage \/ localStorage["user"] = <<"null">>)
                   => account' = undefined
             /\ \A d \in Dids, e \in Endpoints, h \in Handles :
                   ("user" \in DOMAIN localStorage
                       /\ localStorage["user"] = JSONstringify(Account(d, e, h)))
                   => account' = Account(d, e, h)]_vars

C8_SeededFromPreviousPage ==
    /\ constructed
    /\ reloads = 1
    /\ didCache = <<>>
    /\ Truthy(account)
    /\ account.handle = "b.test"

\* C9: waitForInitialSession never fails: no caller of it ever completes
\* with an error.
C9_WaitNeverFails == \A w \in Waiters : waiter[w] # "threw"

\* C10: a step of a call that is inside getDidAndPds leaves Account, Agent,
\* Client and storage alone, and when identity resolution fails in that step
\* the call throws with that error having looked up no session, written no
\* slot and redirected nowhere.
C10_ResolutionFailureIsClean ==
    [][\A c \in CallIds :
          LET InResolution(call) ==
                \/ call.pc = "fetchingDoc"
                \/ call.pc = "resolving" /\ call.phase = "identity"
          IN  /\ (InResolution(calls'[c]) /\ calls'[c] # calls[c]) =>
                    UNCHANGED <<account, agent, client, localStorage>>
              /\ (InResolution(calls[c]) /\ calls'[c] # calls[c]
                     /\ calls'[c].pc \notin {"fetchingDoc", "gotDidPds"}) =>
                    /\ ret'.op = "authenticateIfNecessary"
                    /\ ret'.call = c
                    /\ ret'.result = "throw"
                    /\ ret'.error \in (IF calls[c].pc = "resolving"
                                       THEN {"resolution"}
                                       ELSE {"document", "no pds"})
                    /\ ret'.effects = {"getDidAndPds"}
                    /\ UNCHANGED <<account, agent, client, localStorage>>]_vars

C10_FailedWhileLoggedIn ==
    /\ ret.op = "authenticateIfNecessary"
    /\ ret.result = "throw"
    /\ ret.error = "resolution"
    /\ Truthy(user)

\* C11: a failure of the silent session lookup is never propagated: the step
\* in which the lookup of a call fails makes a refreshOnly call return false,
\* with no Agent written, and sends any other call on to interactive
\* authentication.
C11_LookupFailureIsNoSession ==
    [][\A c \in CallIds :
          LET InLookup(call) ==
                \/ call.pc = "gettingSession"
                \/ call.pc = "resolving" /\ call.phase = "oauth"
          IN  (InLookup(calls[c]) /\ calls'[c] # calls[c]
                  /\ calls'[c].pc \notin {"gettingSession", "setClient"}) =>
                 IF calls[c].refreshOnly
                 THEN /\ ret'.op = "authenticateIfNecessary"
                      /\ ret'.call = c
                      /\ ret'.result = "false"
                      /\ "agent" \notin ret'.effects
                      /\ UNCHANGED <<agent, client>>
                 ELSE /\ calls'[c].pc = "authorizing"
                      /\ ret' = NoReturn
                      /\ UNCHANGED <<agent, client>>]_vars

C11_InteractiveAfterFailedLookup ==
    \E c \in CallIds :
       /\ calls[c].pc = "authorizing"
       /\ ~calls[c].refreshOnly
       /\ "getSession" \in calls[c].effects

\* C12 (as amended): a call that entered interactive authentication never
\* returns a value and never writes Agent or Client: it throws, either
\* because the authorization request could not be built (before any
\* redirect) or after the watchdog that follows the redirect; the redirect
\* has happened exactly when the watchdog runs or has elapsed, so after the
\* request was built and the delay elapsed.
C12_InteractiveNeverReturns ==
    /\ \A c \in CallIds :
          calls[c].pc \in {"authorizing", "delay", "watchdog"} =>
             /\ ~calls[c].refreshOnly
             /\ "authorize" \in calls[c].effects
             /\ calls[c].effects \cap {"agent", "client"} = {}
             /\ ("redirect" \in calls[c].effects) <=> (calls[c].pc = "watchdog")
    /\ (ret.op = "authenticateIfNecessary" /\ "authorize" \in ret.effects) =>
          /\ ret.result = "throw"
          /\ ret.error \in {"authorize", "unreachable code"}
          /\ ret.effects \cap {"agent", "client"} = {}
          /\ (ret.error = "unreachable code") <=> ("redirect" \in ret.effects)

C12_ThrewAfterWatchdog ==
    /\ ret.op = "authenticateIfNecessary"
    /\ ret.error = "unreachable code"
    /\ "redirect" \in ret.effects

\* C12 (as stated): a call that entered interactive authentication settles
\* only by throwing after the watchdog, the redirect done.
C12_OnlyWatchdogThrows ==
    (ret.op = "authenticateIfNecessary" /\ "authorize" \in ret.effects) =>
       /\ ret.error = "unreachable code"
       /\ "redirect" \in ret.effects

NetworkEffects == {"http", "doh", "directory", "well-known"}

\* C13: resolveHandleAnonymously called with a string of DID syntax returns
\* that string in the step that calls it, having started no strategy and
\* touched no cache, and no handle-cache entry is ever keyed by a DID.
C13_DidPassesThrough ==
    /\ DOMAIN didCache \cap DidSyntax = {}
    /\ \A l \in LookupIds :
          (lookups[l].pc # "idle" /\ lookups[l].op = "resolveHandleAnonymously") =>
             ~isDid(lookups[l].key)
    /\ (idret.op = "resolveHandleAnonymously" /\ idret.key \in DidSyntax) =>
          /\ idret.outcome = Fulfilled(idret.key)
          /\ idret.effects = {}

C13_DidReturned ==
    /\ idret.op = "resolveHandleAnonymously"
    /\ idret.key = "did:web:localhost"
    /\ idret.outcome.status = "fulfilled"

\* C14: with the calls made one after the other, a call getDidAndPds(k) that
\* starts after a call for k has returned successfully returns in the step
\* that starts it, with the tuple the first call returned and without any
\* request to the network.
C14_SecondLookupFromCache ==
    [][\A l \in LookupIds, k \in LookupKeys :
          LET started ==
                /\ lookups[l].pc = "idle"
                /\ \/ /\ lookups'[l].pc # "idle"
                      /\ lookups'[l].op = "getDidAndPds"
                      /\ lookups'[l].key = k
                   \/ /\ idret'.op = "getDidAndPds"
                      /\ idret'.lookup = l
                      /\ idret'.key = k
          IN  (k \in DOMAIN firstTuple /\ started) =>
                 /\ idret'.op = "getDidAndPds"
                 /\ idret'.lookup = l
                 /\ idret'.outcome = Fulfilled(firstTuple[k])
                 /\ idret'.effects \cap NetworkEffects = {}
                 /\ UNCHANGED <<didCache, didPdsCache>>]_vars

C14_ReturnedFromCache ==
    /\ idret.op = "getDidAndPds"
    /\ idret.key = "a.test"
    /\ idret.outcome.status = "fulfilled"
    /\ idret.effects \cap NetworkEffects = {}

\* C15: whenever two or more TXT answers start with 'did=', resolveHandleViaDoH
\* returns no DID.
C15_AmbiguousAnswersFail ==
    (sample.fn = "resolveHandleViaDoH" /\ sample.input.ok
        /\ sample.input.type = "application/dns-json"
        /\ isResult(sample.input.result)) =>
       LET txt == TxtAnswers(sample.input.result)
           prefixed == { i \in 1..Len(txt) : startsWith(txt[i], PREFIX) }
       IN  Cardinality(prefixed) >= 2 => sample.output.status = "rejected"

\* C16: when exactly one TXT answer starts with 'did=' and what follows the
\* prefix is a DID, resolveHandleViaDoH returns that DID, wherever the answer
\* stands among the others.
C16_SingleRecordResolves ==
    (sample.fn = "resolveHandleViaDoH" /\ sample.input.ok
        /\ sample.input.type = "application/dns-json"
        /\ isResult(sample.input.result)) =>
       LET txt == TxtAnswers(sample.input.result)
           prefixed == { i \in 1..Len(txt) : startsWith(txt[i], PREFIX) }
       IN  \A i \in prefixed :
              (prefixed = {i} /\ Len(txt[i]) = 2 /\ txt[i][2] \in DidSyntax) =>
                 sample.output = Fulfilled(txt[i][2])

C16_RecordBetweenOthers ==
    /\ sample.fn = "resolveHandleViaDoH"
    /\ sample.output = Fulfilled("did:plc:1")
    /\ "Answer" \in DOMAIN sample.input.result
    /\ Len(sample.input.result.Answer) = 3
    /\ sample.input.result.Answer[1].data = <<"\"", "v=spf1", "\"">>
    /\ sample.input.result.Answer[3].type = 5

\* C17: a resolveHandleAnonymously call that ran the strategies fails exactly
\* when both strategies failed, and then with the outcomes of both; otherwise
\* it returns the DID of a strategy that succeeded.
C17_FailsOnlyIfBothFail ==
    (idret.op = "resolveHandleAnonymously" /\ "http" \in idret.effects) =>
       /\ (idret.outcome.status = "rejected") <=>
             (idret.http.status = "rejected" /\ idret.doh.status = "rejected")
       /\ idret.outcome.status = "rejected" =>
             idret.outcome.reason = <<idret.http, idret.doh>>
       /\ idret.outcome.status = "fulfilled" =>
             \/ idret.http = Fulfilled(idret.outcome.value)
             \/ idret.doh = Fulfilled(idret.outcome.value)

C17_OneStrategyFailed ==
    /\ idret.op = "resolveHandleAnonymously"
    /\ idret.http.status = "rejected"
    /\ idret.doh.status = "fulfilled"
    /\ idret.outcome.status = "fulfilled"

\* C18: when both strategies succeeded with different DIDs,
\* resolveHandleAnonymously returns the DID of the strategy that settled first.
C18_FirstInTimeWins ==
    (idret.op = "resolveHandleAnonymously"
        /\ idret.http.status = "fulfilled" /\ idret.doh.status = "fulfilled"
        /\ idret.http.value # idret.doh.value) =>
       idret.outcome =
          Fulfilled(IF idret.first = "http" THEN idret.http.value
                    ELSE idret.doh.value)

\* C19: getServiceEndpoint returns the endpoint string of the first entry
\* whose id is the service id or its DID-qualified form, when that entry has
\* the asked type and its endpoint is a string that is an absolute http or
\* https URL with a host; in every other case it returns undefined.
C19_ServiceEndpointValidated ==
    sample.fn = "getServiceEndpoint" =>
       LET doc == sample.input
           hits == { i \in 1..Len(doc.service) :
                       doc.service[i].id \in
                          {sample.serviceId, doc.id \o sample.serviceId} }
           Valid(entry) ==
               /\ entry.type = sample.serviceType
               /\ entry.serviceEndpoint.typeof = "string"
               /\ entry.serviceEndpoint.value \in
                     {"https://pds.test", "http://pds.test:2583/"}
       IN  IF hits # {} /\ Valid(doc.service[CHOOSE i \in hits : \A j \in hits : i <= j])
           THEN sample.output =
                   doc.service[CHOOSE i \in hits : \A j \in hits : i <= j]
                      .serviceEndpoint.value
           ELSE sample.output = "undefined"

C19_QualifiedIdSelected ==
    /\ sample.fn = "getServiceEndpoint"
    /\ sample.output = "http://pds.test:2583/"
    /\ Len(sample.input.service) = 2
    /\ sample.input.service[1].id = "#atproto_labeler"
    /\ sample.input.service[2].id = "did:plc:1#atproto_pds"

\* C20: for a plc DID, getDidDocument fails with 'not found' on a 404
\* response, with 'directory is unreachable' on every other response outside
\* 200..299, and returns a document only on a response inside 200..299, and
\* then the parsed body.
C20_DirectoryFailuresDistinct ==
    (sample.fn = "getDidDocument" /\ sample.request = "directory") =>
       LET status == sample.response.status
       IN  /\ status = 404 =>
                 sample.output = Rejected("did not found in directory")
           /\ (status # 404 /\ (status < 200 \/ status > 299)) =>
                 sample.output = Rejected("directory is unreachable")
           /\ sample.output.status = "fulfilled" =>
                 /\ status >= 200 /\ status <= 299
                 /\ sample.output.value = sample.response.body

C20_NotFound ==
    /\ sample.fn = "getDidDocument"
    /\ sample.input = "did:plc:1"
    /\ sample.response.status = 404
    /\ sample.output.status = "rejected"

\* the requests getDidDocument sends
DocumentRequests == {"directory", "well-known"}

\* C21: getDidAndPds called with a DID whose method is neither plc nor web
\* fails with 'unsupported did method', and called with a web DID whose
\* method-specific id is no domain name fails with 'invalid identifier'; in
\* both cases in the step that calls it, with no request sent, and no call is
\* ever waiting for the document of such a DID.
C21_NoRequestForBadDid ==
    /\ \A l \in LookupIds :
          lookups[l].pc = "fetching" =>
             \/ didMethod(lookups[l].did) = "plc"
             \/ didMethod(lookups[l].did) = "web"
                   /\ DID_WEB_RE(didIdent(lookups[l].did))
    /\ (idret.op = "getDidAndPds" /\ isDid(idret.key)
           /\ didMethod(idret.key) \notin {"plc", "web"}) =>
          /\ idret.outcome = Rejected("unsupported did method")
          /\ idret.effects \cap NetworkEffects = {}
    /\ (idret.op = "getDidAndPds" /\ isDid(idret.key)
           /\ didMethod(idret.key) = "web" /\ ~DID_WEB_RE(didIdent(idret.key))) =>
          /\ idret.outcome = Rejected("invalid identifier")
          /\ idret.effects \cap NetworkEffects = {}

C21_InvalidWebIdentifier ==
    /\ idret.op = "getDidAndPds"
    /\ idret.key = "did:web:localhost"
    /\ idret.outcome = Rejected("invalid identifier")

\* C22: a getDidAndPds call that fails, with 'No PDS' in particular, stores
\* nothing in the identity cache, and with the calls made one after the other
\* the cache has no entry for its key afterwards; and a call for a key that
\* the cache has no entry for does not return from the cache: it sends the
\* document request (again), waits for the strategies first, or fails on the
\* syntax of the DID.
C22_NoNegativeCaching ==
    [][/\ (idret'.op = "getDidAndPds" /\ idret'.outcome.status = "rejected") =>
             /\ UNCHANGED didPdsCache
             /\ idret'.key \notin DOMAIN didPdsCache'
             /\ "didPdsCache.set" \notin idret'.effects
       /\ \A l \in LookupIds, k \in LookupKeys :
             LET started ==
                   /\ lookups[l].pc = "idle"
                   /\ \/ /\ lookups'[l].pc # "idle"
                         /\ lookups'[l].op = "getDidAndPds"
                         /\ lookups'[l].key = k
                      \/ /\ idret'.op = "getDidAndPds"
                         /\ idret'.lookup = l
                         /\ idret'.key = k
             IN  (k \notin DOMAIN didPdsCache /\ started) =>
                    \/ /\ lookups'[l].pc = "fetching"
                       /\ lookups'[l].effects \cap DocumentRequests # {}
                    \/ /\ lookups'[l].pc = "strategies"
                       /\ k \notin DOMAIN didCache
                    \/ /\ idret'.op = "getDidAndPds"
                       /\ idret'.outcome \in {Rejected("invalid identifier"),
                                              Rejected("unsupported did method")}]_vars

C22_FailedWithoutEndpoint ==
    /\ idret.op = "getDidAndPds"
    /\ idret.key = "a.test"
    /\ idret.outcome = Rejected("No PDS")
    /\ "a.test" \in DOMAIN didCache
    /\ "a.test" \notin DOMAIN didPdsCache
    /\ "http" \notin idret.effects

\* shortId.slice(2): the characters after the two of the clock id
TimestampPart(id) == SubSeq(id, 3, Len(id))

\* the number a string over S64_CHAR spells, most significant digit first
RECURSIVE s64value(_)
s64value(str) ==
    IF str = <<>> THEN 0
    ELSE s64value(SubSeq(str, 1, Len(str) - 1)) * Len(S64_CHAR)
            + (CHOOSE k \in 1..Len(S64_CHAR) : S64_CHAR[k] = str[Len(str)]) - 1

\* C23: of two successive now() calls of one generator, whatever the clock
\* read at each (the same reading, or an earlier one) and whatever epoch
\* ShortId2.now was given at each, the timestamp that the later ID spells is
\* strictly greater than the one the earlier ID spells.
C23_TimestampsIncrease ==
    /\ Len(issued["ShortId"]) = 2 =>
          s64value(TimestampPart(issued["ShortId"][2].id))
             > s64value(TimestampPart(issued["ShortId"][1].id))
    /\ Len(issued["ShortId2"]) = 2 =>
          s67decode(TimestampPart(issued["ShortId2"][2].id))
             > s67decode(TimestampPart(issued["ShortId2"][1].id))

C23_ClockWentBack ==
    /\ Len(issued["ShortId2"]) = 2
    /\ issued["ShortId2"][1].reading = 4700
    /\ issued["ShortId2"][2].reading = 90
    /\ issued["ShortId2"][1].epoch # issued["ShortId2"][2].epoch
    /\ s67decode(TimestampPart(issued["ShortId2"][2].id))
          = s67decode(TimestampPart(issued["ShortId2"][1].id)) + 1
    /\ Len(issued["ShortId"]) = 1

\* C24: whenever User is defined, the Agent wraps a session of Account.did
\* and the Client was made for Account.handle.
C24_AgentBelongsToAccount ==
    Truthy(user) =>
       /\ agent.handler.session.sub = account.did
       /\ client.handle = account.handle
       /\ client.agent = agent

\* C25: when a call of authenticateIfNecessary returns true, whatever ran
\* between its steps, User is defined with the requested handle, and if the
\* call wrote Agent and Client the slots hold what it wrote.
C25_TrueMeansLoggedInAsRequested ==
    (ret.op = "authenticateIfNecessary" /\ ret.result = "true") =>
       /\ Truthy(user)
       /\ account.handle = ret.handle
       /\ "client" \in ret.effects =>
             /\ agent = KittyAgent(OAuthUserAgent(Session(ret.sdid)))
             /\ client = createClient(ret.did, ret.pds, ret.handle, agent)

\* which of Account, Agent and Client are present
Presence == <<Truthy(account), Truthy(agent), Truthy(client)>>

LOGGED_OUT == <<FALSE, FALSE, FALSE>>
ACCOUNT_ONLY == <<TRUE, FALSE, FALSE>>
LOGGED_IN == <<TRUE, TRUE, TRUE>>

\* C26: whenever no operation is in progress, the store is LOGGED_OUT,
\* ACCOUNT_ONLY or LOGGED_IN; in particular Agent or Client is never present
\* while Account is absent.
C26_ThreePresenceStates ==
    Quiet => Presence \in {LOGGED_OUT, ACCOUNT_ONLY, LOGGED_IN}

\* C27: User, undefined once revokeSessions has cleared the Account, becomes
\* defined again only in the step in which a call of authenticateIfNecessary
\* that obtained a session writes the Client; the step that writes the
\* provisional Account does not make it defined.
C27_UserReturnsOnlyWithSession ==
    [][(~Truthy(user) /\ Truthy(user')) =>
          /\ ret'.op = "authenticateIfNecessary"
          /\ ret'.result = "true"
          /\ {"getSession", "agent", "client"} \subseteq ret'.effects]_vars

\* C28: no step other than the one in which revokeSessions clears the Account
\* makes a present Account, Agent or Client absent, so User, once defined,
\* stays defined until revokeSessions; a call of authenticateIfNecessary that
\* throws or returns false takes nothing away.
C28_OnlyRevokeClears ==
    [][/\ (Truthy(account) /\ ~Truthy(account')) => ret'.op = "revokeSessions"
       /\ Truthy(agent) => Truthy(agent')
       /\ Truthy(client) => Truthy(client')
       /\ (Truthy(user) /\ ~Truthy(user')) => ret'.op = "revokeSessions"
       /\ (Truthy(user) /\ ret'.op = "authenticateIfNecessary") => Truthy(user')]_vars

C28_StillDefinedAfterFalse ==
    /\ ret.op = "authenticateIfNecessary"
    /\ ret.result = "false"
    /\ "getSession" \in ret.effects
    /\ Truthy(user)

SlotWrites == {"account", "agent", "client"}

\* Account and Agent present, Client absent
ACCOUNT_AND_AGENT == <<TRUE, TRUE, FALSE>>

\* C29: every step of a call of authenticateIfNecessary writes at most one of
\* the slots, the Account first, the Agent after it and the Client last, each
\* write leaving the other two slots as they were; and from a store with all
\* three absent the writes lead to Account alone, then to Account and Agent
\* without Client with User still undefined, and User becomes defined in the
\* step that writes the Client.
C29_SlotsWrittenInOrder ==
    [][\A c \in CallIds :
          calls'[c] # calls[c] =>
             LET before == calls[c].effects
                 after == IF ret'.op = "authenticateIfNecessary" /\ ret'.call = c
                          THEN ret'.effects
                          ELSE calls'[c].effects
                 written == (after \ before) \cap SlotWrites
             IN  /\ Cardinality(written) <= 1
                 /\ written = {} => UNCHANGED <<account, agent, client>>
                 /\ "account" \in written =>
                       /\ before \cap SlotWrites = {}
                       /\ Truthy(account')
                       /\ UNCHANGED <<agent, client>>
                       /\ Presence = LOGGED_OUT =>
                             (Presence' = ACCOUNT_ONLY /\ ~Truthy(user'))
                 /\ "agent" \in written =>
                       /\ before \cap SlotWrites = {"account"}
                       /\ Truthy(agent')
                       /\ UNCHANGED <<account, client>>
                       /\ Presence = ACCOUNT_ONLY =>
                             (Presence' = ACCOUNT_AND_AGENT /\ ~Truthy(user'))
                 /\ "client" \in written =>
                       /\ before \cap SlotWrites = {"account", "agent"}
                       /\ Truthy(client')
                       /\ UNCHANGED <<account, agent>>
                       /\ ret'.result = "true"
                       /\ Presence = ACCOUNT_AND_AGENT =>
                             (~Truthy(user) /\ Truthy(user'))]_vars

C29_AgentWithoutClient ==
    /\ \E c \in UserCalls : calls[c].pc = "setClient"
    /\ Presence = ACCOUNT_AND_AGENT
    /\ ~Truthy(user)

C31_RevokeFrame ==
    [][revoke' # revoke =>
          /\ UNCHANGED <<agent, client, initialSessionPromise, waiter, bodyStarts,
                         calls, didCache, didPdsCache, constructed>>
          /\ revoke = "idle" => UNCHANGED <<account, localStorage>>
          /\ revoke = "deleted" =>
                /\ UNCHANGED sessions
                /\ account' = undefined
                /\ localStorage' = [localStorage EXCEPT !["user"] = <<"null">>]]_vars

C31_RevokedWithPromiseKept ==
    /\ ret.op = "revokeSessions"
    /\ Truthy(agent)
    /\ Truthy(client)
    /\ initialSessionPromise = "fulfilled"
    /\ bodyStarts = 1

\* C32: a call of authenticateIfNecessary that is looking up a session, or
\* that has returned after doing so, asked for the session of the DID it
\* wrote into the provisional Account.
C32_SessionOfAccountDid ==
    /\ \A c \in CallIds :
          calls[c].pc \in {"gettingSession", "setClient"} =>
             calls[c].sdid = calls[c].did
    /\ (ret.op = "authenticateIfNecessary" /\ ret.result = "true"
           /\ "getSession" \in ret.effects) =>
          ret.sdid = ret.did

\* C33: no call is suspended on the strategies once one of them has
\* succeeded: the success of one completes the resolution whatever the other
\* does.
C33_FirstSuccessCompletes ==
    \A l \in LookupIds :
       lookups[l].pc = "strategies" =>
          /\ lookups[l].http.status # "fulfilled"
          /\ lookups[l].doh.status # "fulfilled"

\* the call is inside getDidAndPds, suspended on the network
InGetDidAndPds(call) ==
    \/ call.pc = "fetchingDoc"
    \/ call.pc = "resolving" /\ call.phase = "identity"

\* C34: no two calls are suspended on the network inside getDidAndPds for
\* the same key at the same time (the resolution of a key is on its way at
\* most once), and two calls that have left getDidAndPds with the same key
\* hold the same DID and hosting endpoint.
C34_OverlappingLookupsShare ==
    \A c1, c2 \in CallIds :
       (c1 # c2 /\ calls[c1].handle = calls[c2].handle) =>
          /\ ~(InGetDidAndPds(calls[c1]) /\ InGetDidAndPds(calls[c2]))
          /\ (calls[c1].pc = "gotDidPds" /\ calls[c2].pc = "gotDidPds") =>
                (calls[c1].did = calls[c2].did /\ calls[c1].pds = calls[c2].pds)

\* C35: an entry of the handle cache or of the identity cache, once there,
\* stays there with the value it has.
C35_CacheEntriesAreFinal ==
    [][/\ \A k \in DOMAIN didCache :
             k \in DOMAIN didCache' /\ didCache'[k] = didCache[k]
       /\ \A k \in DOMAIN didPdsCache :
             k \in DOMAIN didPdsCache' /\ didPdsCache'[k] = didPdsCache[k]]_vars

\* C36: the caches are keyed by the string the caller passed.  A step adds to
\* either cache at most the key of the call that took it, the handle cache
\* never gets a DID as key, and a successful getDidAndPds(k) leaves its tuple
\* under k alone; so getDidAndPds(d) for a DID d with no entry of its own,
\* whatever the handles that resolved to d, asks for the document again, and
\* its return adds the entry under d.
C36_KeyedByLookupString ==
    [][\A l \in LookupIds :
          /\ (idret'.op = "getDidAndPds" /\ idret'.lookup = l
                 /\ idret'.outcome.status = "fulfilled"
                 /\ "didPdsCache.set" \in idret'.effects) =>
                /\ DOMAIN didPdsCache' = DOMAIN didPdsCache \cup {idret'.key}
                /\ didPdsCache'[idret'.key] = idret'.outcome.value
          /\ DOMAIN didCache' \subseteq
                (DOMAIN didCache \cup {lookups[k].key : k \in LookupIds}) \ DidSyntax
          /\ DOMAIN didPdsCache' \subseteq
                DOMAIN didPdsCache \cup {lookups[k].key : k \in LookupIds}
          /\ \A d \in LookupKeys \cap DidSyntax :
                LET started ==
                      /\ lookups[l].pc = "idle"
                      /\ \/ /\ lookups'[l].pc # "idle"
                            /\ lookups'[l].op = "getDidAndPds"
                            /\ lookups'[l].key = d
                         \/ /\ idret'.op = "getDidAndPds"
                            /\ idret'.lookup = l
                            /\ idret'.key = d
                IN  (started /\ d \notin DOMAIN didPdsCache) =>
                       IF DocumentRequest(d) \in {"directory", "well-known"}
                       THEN /\ lookups'[l].pc = "fetching"
                            /\ lookups'[l].request = DocumentRequest(d)
                            /\ DocumentRequest(d) \in lookups'[l].effects
                       ELSE idret'.outcome.status = "rejected"]_vars

C36_SecondEntryUnderDid ==
    /\ idret.op = "getDidAndPds"
    /\ idret.key = "did:plc:1"
    /\ idret.outcome.status = "fulfilled"
    /\ "directory" \in idret.effects
    /\ "didPdsCache.set" \in idret.effects
    /\ "a.test" \in DOMAIN didPdsCache
    /\ didPdsCache["a.test"].did = "did:plc:1"
    /\ "did:plc:1" \in DOMAIN didPdsCache
    /\ "did:plc:1" \notin DOMAIN didCache

\* the distinct items collected so far
Collected(results) == {results[i] : i \in DOMAIN results}

\* C37: every iteration of the pagination helper either ends the call (the
\* page was empty, held only items collected before, or came without a
\* cursor, or the query failed) or adds to the results at least one item not
\* collected before and issues one more query; so a call issues at most one
\* query more than the server has distinct items, whatever cursors it gets.
C37_IterationStopsOrAddsNew ==
    [][pager.pc = "querying" =>
          \/ UNCHANGED pager
          \/ /\ pager'.pc = "done"
             /\ pager'.requests = pager.requests
             /\ pager'.stop = "empty" => pager'.page = <<>> /\ pager'.results = pager.results
             /\ pager'.stop = "known" =>
                   /\ Collected(pager'.page) \subseteq Collected(pager.results)
                   /\ pager'.results = pager.results
             /\ pager'.stop = "nocursor" =>
                   /\ pager'.cursor \in {"undefined", ""}
                   /\ Collected(pager'.results) \ Collected(pager.results) # {}
             /\ pager'.stop \in {"empty", "known", "nocursor", "threw"}
          \/ /\ pager'.pc = "querying"
             /\ Collected(pager'.results) \ Collected(pager.results) # {}
             /\ Collected(pager.results) \subseteq Collected(pager'.results)
             /\ pager'.requests = pager.requests + 1
             /\ pager'.requests <= Cardinality(Items) + 1]_vars

C37_EndedWithCursorLeft ==
    /\ pager.pc = "done"
    /\ pager.stop = "known"
    /\ pager.cursor = "c1"
    /\ pager.requests = Cardinality(Items) + 1
    /\ Collected(pager.results) = Items

\* C38: with a limit L from the caller and a server that has returned no more
\* items than each query asked for, the helper holds at most L items, asks
\* for at most PER_PAGE items, and while a query is out it asks for at least
\* one item and holds fewer than L.
C38_LimitRespected ==
    (pager.pc # "idle" /\ pager.L # undefined /\ pager.obeyed) =>
       /\ Len(pager.results) <= pager.L.value
       /\ pager.asked <= PER_PAGE
       /\ pager.pc = "querying" =>
             /\ pager.asked >= 1
             /\ Len(pager.results) < pager.L.value

(***************************************************************************)
(* ShortId2.create and ShortId2.getDate applied to a timestamp, a clock id *)
(* and an epoch.  A Date is the number of milliseconds it holds.           *)
(***************************************************************************)
\* timestamps around the powers of the alphabet's length, and one below 0
Timestamps == {-1, 0, 1, 66, 67, 4488, 4489, 20151121}

\* clock ids at the ends of 0..1023, around the alphabet's length, and
\* outside
CreateClockIds == {-1, 0, 1, 66, 67, 1023, 1024}

\* Number.isSafeInteger on the numbers of the model, all integers below 2^53
isSafeInteger(n) == n \in Int

\* ShortId2.create
ShortId2Create(timestamp, clockid) ==
    IF timestamp < 0 \/ ~isSafeInteger(timestamp) THEN Rejected("invalid timestamp")
    ELSE IF clockid < 0 \/ clockid > 1023 THEN Rejected("invalid clockid")
    ELSE Fulfilled(ShortId2CreateRaw(timestamp, clockid))

\* ShortId2.getDate
ShortId2GetDate(shortId, epoch) == s67decode(TimestampPart(shortId)) + epoch

ApplyShortId2Create(timestamp, clockid, epoch) ==
    /\ sample = NoSample
    /\ LET created == ShortId2Create(timestamp, clockid)
       IN  sample' = [fn |-> "ShortId2.create", timestamp |-> timestamp,
                      clockid |-> clockid, epoch |-> epoch, created |-> created,
                      date |-> IF created.status = "fulfilled"
                               THEN Fulfilled(ShortId2GetDate(created.value, epoch))
                               ELSE Pending]
    /\ UNCHANGED <<didCache, didPdsCache, lookups, idret, firstTuple>>
    /\ UNCHANGED <<appvars, genvars>>

NextShortId2Create ==
    sample = NoSample /\ \E timestamp \in Timestamps, clockid \in CreateClockIds,
                             epoch \in Epochs :
        ApplyShortId2Create(timestamp, clockid, epoch)

SpecShortId2Create == InitIdentity /\ [][NextShortId2Create]_vars

\* C39: for a timestamp t >= 0, a clock id c in 0..1023 and an epoch e,
\* ShortId2.create(t, c) is two characters that spell c followed by
\* s67encode(t), getDate of it with e is the instant t + e, and
\* s67decode(s67encode(t)) = t.
C39_TimestampRoundTrip ==
    (sample.fn = "ShortId2.create" /\ sample.timestamp >= 0
        /\ sample.clockid \in 0..1023) =>
       /\ sample.created.status = "fulfilled"
       /\ LET id == sample.created.value
          IN  /\ Len(id) = 2 + Len(s67encode(sample.timestamp))
              /\ s67decode(SubSeq(id, 1, 2)) = sample.clockid
              /\ TimestampPart(id) = s67encode(sample.timestamp)
       /\ sample.date = Fulfilled(sample.timestamp + sample.epoch)
       /\ s67decode(s67encode(sample.timestamp)) = sample.timestamp

C39_ThreeDigitTimestamp ==
    /\ sample.fn = "ShortId2.create"
    /\ sample.timestamp = 4489
    /\ sample.clockid = 0
    /\ sample.epoch = EPOCH["ShortId2"]
    /\ sample.created = Fulfilled(<<"A", "A", "B", "A", "A">>)
    /\ sample.date = Fulfilled(4489 + EPOCH["ShortId2"])

====
